---- MODULE Spec2Model ----
(***************************************************************************)
(* Blueprint backend: the model-call gateway (app/llm.py) and the research *)
(* pipeline orchestrator (app/api/research.py) over the journey store      *)
(* (app/db.py).                                                            *)
(*                                                                         *)
(* The process is a single asyncio event loop: code between two            *)
(* suspension points (an await that really suspends, or a yield of an      *)
(* async generator) runs atomically, so every action below is one such     *)
(* stretch of code.  The db functions are `async def` with a synchronous   *)
(* body (the supabase client is blocking), so awaiting them does not       *)
(* suspend.                                                                *)
(*                                                                         *)
(* The gateway is followed for one caller of call_llm_structured at a      *)
(* time; the calls that run concurrently with it act on the state they     *)
(* share with it, the cooldown map, through the Concurrent actions.        *)
(***************************************************************************)
EXTENDS Integers, Sequences, FiniteSets, TLC

(***************************************************************************)
(* Bounds of the model.                                                    *)
(***************************************************************************)
\* Length of LLM_CONFIG["fallback_chain"] explored (the shipped chain has 5).
ChainLen == 3
\* Number of clock ticks explored.
MaxTicks == 2
\* Streams that may be open at the same time.
MaxStreams == 2
\* Start requests and selection requests accepted in one behaviour.
MaxStartRequests == 1
MaxSelectionRequests == 2
\* Competitors one selection may name.
MaxCompetitors == 2
\* Competitors of the explore phase followed unit by unit.
MaxUnits == 3
\* Calls of search() in progress at the same time.
MaxSearches == 2

(***************************************************************************)
(* Program constants.                                                      *)
(***************************************************************************)
RATE_LIMIT_COOLDOWN_SECONDS == 600
\* The clock advances in steps of half a cooldown window.
TickSeconds == RATE_LIMIT_COOLDOWN_SECONDS \div 2

\* Positions of LLM_CONFIG["fallback_chain"]; position 1 is chain[0].
Chain == 1..ChainLen

(***************************************************************************)
(* Texts.  A raw completion is a body, possibly wrapped in a markdown code *)
(* fence; an error is represented by the vocabulary its message carries.   *)
(***************************************************************************)
RawText(fence, body) == [fence |-> fence, body |-> body]
\* Non-empty completions a provider may return.
Raws ==
    { RawText("none", "valid"), RawText("json", "valid"),
      RawText("none", "badjson"), RawText("none", "badschema") }
\* The empty completion ("" in the code).
EmptyContent == RawText("none", "empty")
\* No text at all (None in the code).
NoRaw == RawText("none", "absent")
\* Messages of the exceptions litellm.acompletion may raise, as the set of
\* lower-cased words they carry.
ProviderErrors ==
    { {"429", "quota"}, {"request", "timed out"}, {"invalid", "api", "key"} }
\* Message of the ValueError raised for an empty completion.
EmptyContentError == {"provider", "returned", "empty", "content"}
\* last_error = None
NoError == {}
\* What one provider attempt produces: litellm.acompletion raises, or it
\* returns a message with a content and a reasoning_content, either of which
\* may be empty (a response without choices is a message with both empty).
Responses ==
    { m \in [ kind : {"message"}, content : Raws \cup {EmptyContent},
              reasoning_content : {EmptyContent, RawText("none", "badschema")},
              error : {NoError} ] :
        \/ m.reasoning_content = EmptyContent
        \/ m.content \in {EmptyContent, RawText("json", "valid")} }
        \cup
    [ kind : {"raise"}, content : {EmptyContent},
      reasoning_content : {EmptyContent}, error : ProviderErrors ]

VARIABLES
    now,                 \* time.monotonic(), in seconds
    rate_limited_until,  \* llm._rate_limited_until: provider -> deadline
    initialized,         \* llm._initialized
    active_provider,     \* llm._active_provider (0: None)
    llm_state,           \* the llm_state row of the store (0: no row)
    frame,               \* the caller's running call_llm invocation
    sc,                  \* the caller's call_llm_structured activation
    lastInv,             \* the call_llm invocation that finished in the
                         \* caller's latest step
    marked_at            \* history: provider -> the time of its latest
                         \* rate-limit-shaped failure since the map was
                         \* last cleared (Never: none)

llmVars == << now, rate_limited_until, initialized, active_provider,
              llm_state, frame, sc, lastInv, marked_at >>

VARIABLES
    active_researches,   \* research._active_researches, as the set of its keys
    journeys,            \* the journeys table: row j is the journey with id j
    journey_steps,       \* the journey_steps table, in insertion order
    streams,             \* the streams handed to StreamingResponse
    response,            \* what the latest request was answered with
    requests,            \* the requests accepted so far
    ended                \* the stream that ended in the latest step

researchVars == << active_researches, journeys, journey_steps, streams,
                   response, requests, ended >>

VARIABLES
    selected_competitors, \* the competitors of the explore phase
    tasks,                \* the tasks of process_competitor
    scrape_semaphore,     \* scraper._scrape_semaphore
    exploring,            \* the generator of the explore phase
    server_log            \* the error codes log() has printed

exploreVars ==
    << selected_competitors, tasks, scrape_semaphore, exploring, server_log >>

\* search.py: the searches in progress and the Serper setting.
VARIABLES
    serper_api_key,       \* whether settings.serper_api_key is set
    searching             \* the calls of search(), each with its locals

searchVars == << serper_api_key, searching >>

vars == << llmVars, researchVars, exploreVars, searchVars >>

(***************************************************************************)
(* llm.py: rate-limit cooldown cache.                                      *)
(***************************************************************************)
RateLimitKeywords ==
    { "rate_limit", "ratelimit", "429", "quota", "resource_exhausted",
      "timeout", "timed out" }

\* Variant: only the words of a rate limit proper count.
IsRateLimitErrorNarrow(error) ==
    \E kw \in { "rate_limit", "ratelimit", "429" } : kw \in error

\* _is_rate_limit_error: some keyword occurs in the message.
IsRateLimitError(error) == \E kw \in RateLimitKeywords : kw \in error

EmptyMap == [p \in {} |-> 0]

\* History of the marks: none yet, one more, all forgotten by clear().
Never == -1
NeverMarked == [p \in Chain |-> Never]
MarkedNow(marks, provider, t) == [marks EXCEPT ![provider] = t]
\* The marks after a walk: it forgot them if it cleared the map on its way.
MarksAfter(marks, before, after) ==
    IF after.reentries > before.reentries THEN NeverMarked ELSE marks

\* _mark_rate_limited
MarkRateLimited(map, provider, t) ==
    [q \in DOMAIN map \cup {provider} |->
        IF q = provider THEN t + RATE_LIMIT_COOLDOWN_SECONDS ELSE map[q]]

\* Variant: the window is still closed at its deadline.
IsInCooldownAtDeadline(map, provider, t) ==
    provider \in DOMAIN map /\ t <= map[provider]

\* _is_in_cooldown: the value returned ...
IsInCooldown(map, provider, t) ==
    provider \in DOMAIN map /\ t < map[provider]

\* ... and the map it leaves: an expired record is deleted by the check.
AfterCooldownCheck(map, provider, t) ==
    IF provider \in DOMAIN map /\ t >= map[provider]
    THEN [q \in DOMAIN map \ {provider} |-> map[q]]
    ELSE map

(***************************************************************************)
(* llm.py: call_llm.                                                       *)
(***************************************************************************)
NoAnswer ==
    [ kind |-> "none", content |-> EmptyContent,
      reasoning_content |-> EmptyContent, error |-> NoError ]

\* The locals of one call_llm activation, with the history of its attempts:
\* attempts lists the providers attempted, reentries counts the
\* cooldown-reset re-entries; undisturbed is whether the cooldown map was
\* empty when the invocation started, no concurrent call acted during it and
\* every failure so far was rate-limit-shaped; answer is the response of the
\* provider that succeeded and content the text call_llm returned;
\* hard_failed tells whether an attempt failed with an error that is not
\* rate-limit-shaped, persisted whether update_llm_state was called.
NewFrame(startEmpty) ==
    [ pc |-> "loop", idx |-> 0, tried_any |-> FALSE, last_error |-> NoError,
      skipped |-> {}, content |-> NoRaw, answer |-> NoAnswer, reentries |-> 0,
      attempts |-> << >>, undisturbed |-> startEmpty, hard_failed |-> FALSE,
      persisted |-> FALSE ]

NoFrame == [NewFrame(FALSE) EXCEPT !.pc = "none"]

\* The recursive call of line 244 starts with fresh locals.
ReentryFrame(f) ==
    [f EXCEPT !.idx = 0, !.tried_any = FALSE, !.last_error = NoError,
              !.skipped = {}, !.reentries = @ + 1]

\* Variant: one last-ditch retry whenever the walk ended without a success.
ShouldReenterAfterFailures(f) == f.reentries = 0

\* Line 240: the walk ended and nothing was attempted.
ShouldReenter(f) == ~f.tried_any

\* Variant: only the first provider's record is dropped.
ClearFirstProviderOnly(map) == [q \in DOMAIN map \ {1} |-> map[q]]

\* Line 243: _rate_limited_until.clear()
ClearCooldowns(map) == EmptyMap

\* The for loop of call_llm from chain position i up to its next suspension
\* (the await of litellm.acompletion) or its end.  The result is the frame
\* and the cooldown map.
RECURSIVE Walk(_, _, _, _)
Walk(f, map, i, t) ==
    IF i > ChainLen
    THEN IF ShouldReenter(f)
         THEN Walk(ReentryFrame(f), ClearCooldowns(map), 1, t)
         ELSE [f |-> [f EXCEPT !.pc = "raised", !.idx = 0], map |-> map]
    ELSE IF IsInCooldown(map, i, t)
         THEN Walk([f EXCEPT !.skipped = @ \cup {i}], map, i + 1, t)
         ELSE [f |-> [f EXCEPT !.pc = "awaiting", !.idx = i,
                               !.tried_any = TRUE,
                               !.attempts = Append(@, i)],
               map |-> AfterCooldownCheck(map, i, t)]

\* Lines 159-168: the content taken from a response, the reasoning when
\* there is no content.
ExtractContent(r) ==
    IF r.content # EmptyContent THEN r.content
    ELSE IF r.reasoning_content # EmptyContent THEN r.reasoning_content
    ELSE EmptyContent

\* Lines 176, 205: the attempt failed (it raised, or the content is empty).
AttemptFailed(r) == r.kind = "raise" \/ ExtractContent(r) = EmptyContent

\* The exception the except clause of line 205 receives.
AttemptError(r) == IF r.kind = "raise" THEN r.error ELSE EmptyContentError

\* Line 198: persist the switch to this provider.
ShouldPersistSwitch(provider, last_error) ==
    provider # 1 /\ last_error # NoError /\ ~IsRateLimitError(last_error)

\* Variant: the walk resumes one position too far.
NextAfterFailureSkipsOne(i) == i + 2

\* Where the walk resumes after a failed attempt at position i (continue).
NextAfterFailure(i) == i + 1

(***************************************************************************)
(* llm.py: call_llm_structured.                                            *)
(***************************************************************************)
\* _strip_code_fences: the inner text of a ```json or ``` fence, else the
\* text itself.
StripCodeFences(text) ==
    IF text.fence \in {"json", "plain"}
    THEN RawText("none", text.body)
    ELSE text

\* json.loads does not raise JSONDecodeError.
JsonLoads(stripped) == stripped.fence = "none" /\ stripped.body # "badjson"

\* response_model.model_validate does not raise ValidationError.
ModelValidate(parsed) == parsed.body = "valid"

\* Lines 283-288 and 319-324: the output parses and validates.
OutputValid(raw) ==
    LET stripped == StripCodeFences(raw)
    IN  JsonLoads(stripped) /\ ModelValidate(stripped)

\* Variant: the error carries the first output.
RaisedFirstOutput(raw, retry_raw) == raw

\* Line 326: the raw text LLMValidationError carries.
RaisedRawOutput(raw, retry_raw) == retry_raw

\* Variant: the retry's failure is retried as well.
RetriesAlways(pc) == TRUE

\* Line 288: the except clause retries (it is entered from the first try
\* only; the retry's own failure is raised, lines 324-329).
RetriesAfter(pc) == pc = "first"

\* The locals of one call_llm_structured activation; calls counts the
\* call_llm invocations it made.
IdleSc ==
    [ pc |-> "idle", calls |-> 0, raw |-> NoRaw, retry_raw |-> NoRaw,
      result |-> "none", raw_output |-> NoRaw, instance |-> NoRaw ]

\* Variant: the walk starts at the preferred provider.
BeginInvocationAtPreference ==
    Walk(NewFrame(DOMAIN rate_limited_until = {}), rate_limited_until,
         IF active_provider = 0 THEN 1 ELSE active_provider, now)

\* A call_llm invocation begins: lines 114-129 up to the first await.
BeginInvocation ==
    Walk(NewFrame(DOMAIN rate_limited_until = {}),
         rate_limited_until, 1, now)

\* db.get_llm_state: the stored preference, else chain[0].
GetLlmState == IF llm_state # 0 THEN llm_state ELSE 1

\* _ensure_initialized: loads the preference on the first call.
EnsureInitialized ==
    /\ initialized' = TRUE
    /\ active_provider' = IF initialized THEN active_provider ELSE GetLlmState

\* call_llm_structured is called: line 282 up to the first await.
StartStructured ==
    /\ sc.pc = "idle"
    /\ LET w == BeginInvocation
       IN  /\ frame' = w.f
           /\ rate_limited_until' = w.map
    /\ marked_at' = MarksAfter(marked_at, NewFrame(TRUE), BeginInvocation.f)
    /\ sc' = [IdleSc EXCEPT !.pc = "first", !.calls = 1]
    /\ lastInv' = NoFrame
    /\ EnsureInitialized
    /\ UNCHANGED << now, llm_state, researchVars, exploreVars, searchVars >>

\* The awaited provider answers with non-empty content: lines 187-203, then
\* call_llm_structured resumes (lines 283-288 or 319-329), up to its return,
\* its raise or the await of the retry.
RespondContent(r) ==
    LET f == frame
        content == ExtractContent(r)
        persist == ShouldPersistSwitch(f.idx, f.last_error)
        fin == [f EXCEPT !.pc = "returned", !.content = content,
                         !.answer = r, !.persisted = persist]
    IN  /\ f.pc = "awaiting"
        /\ ~AttemptFailed(r)
        /\ lastInv' = fin
        /\ active_provider' = IF persist THEN f.idx ELSE active_provider
        /\ llm_state' = IF persist THEN f.idx ELSE llm_state
        /\ IF OutputValid(content)
           THEN /\ sc' = [sc EXCEPT
                        !.pc = "returned", !.result = "instance",
                        !.instance = content,
                        !.raw = IF sc.pc = "first" THEN content ELSE @,
                        !.retry_raw = IF sc.pc = "retry" THEN content ELSE @]
                /\ frame' = NoFrame
                /\ UNCHANGED << rate_limited_until, marked_at >>
           ELSE IF RetriesAfter(sc.pc)
           THEN LET w == BeginInvocation
                IN  /\ sc' = [sc EXCEPT !.pc = "retry", !.calls = @ + 1,
                                        !.raw = content]
                    /\ frame' = w.f
                    /\ rate_limited_until' = w.map
                    /\ marked_at' = MarksAfter(marked_at, NewFrame(TRUE), w.f)
           ELSE /\ sc' = [sc EXCEPT
                        !.pc = "raised", !.result = "LLMValidationError",
                        !.retry_raw = content,
                        !.raw_output = RaisedRawOutput(sc.raw, content)]
                /\ frame' = NoFrame
                /\ UNCHANGED << rate_limited_until, marked_at >>
        /\ UNCHANGED << now, initialized, researchVars, exploreVars,
                        searchVars >>

\* A call_llm_structured that wraps the gateway's failure in its own error.
LetThroughWrapped(activation) ==
    [activation EXCEPT !.pc = "raised", !.result = "LLMValidationError"]

\* Lines 282 and 319: the awaits of call_llm stand outside every try of
\* call_llm_structured, so the LLMError of line 246 leaves it as it is.
LetThrough(activation) ==
    [activation EXCEPT !.pc = "raised", !.result = "LLMError"]

\* The awaited provider fails: lines 205-236, then the walk continues up to
\* the next await or to the raise of line 246, which call_llm_structured
\* lets through.
RespondFailure(r) ==
    LET f == frame
        e == AttemptError(r)
        marked == IF IsRateLimitError(e)
                  THEN MarkRateLimited(rate_limited_until, f.idx, now)
                  ELSE rate_limited_until
        w == Walk([f EXCEPT !.last_error = e,
                            !.undisturbed = @ /\ IsRateLimitError(e),
                            !.hard_failed = @ \/ ~IsRateLimitError(e)],
                  marked, NextAfterFailure(f.idx), now)
    IN  /\ f.pc = "awaiting"
        /\ AttemptFailed(r)
        /\ rate_limited_until' = w.map
        /\ marked_at' = MarksAfter(IF IsRateLimitError(e)
                                   THEN MarkedNow(marked_at, f.idx, now)
                                   ELSE marked_at,
                                   f, w.f)
        /\ IF w.f.pc = "raised"
           THEN /\ lastInv' = w.f
                /\ frame' = NoFrame
                /\ sc' = LetThrough(sc)
           ELSE /\ frame' = w.f
                /\ lastInv' = NoFrame
                /\ UNCHANGED sc
        /\ UNCHANGED << now, initialized, active_provider, llm_state,
                        researchVars, exploreVars, searchVars >>

\* call_llm_structured has returned or raised and its caller runs on; it may
\* call again.
Release ==
    /\ sc.pc \in {"returned", "raised"}
    /\ sc' = IdleSc
    /\ lastInv' = NoFrame
    /\ UNCHANGED << now, rate_limited_until, initialized, active_provider,
                    llm_state, frame, marked_at, researchVars,
                    exploreVars, searchVars >>

\* The event loop runs another coroutine only while the caller is suspended
\* in an await or is not running.
CallerSuspended == sc.pc \in {"idle", "first", "retry"}

\* The invocation in progress, if any, is no longer alone.
Disturbed ==
    IF frame.pc = "awaiting" THEN [frame EXCEPT !.undisturbed = FALSE] ELSE frame

\* An attempt of a concurrent call_llm fails with a rate-limit-shaped error
\* (lines 218-219).
ConcurrentMark(provider) ==
    /\ CallerSuspended
    /\ rate_limited_until' = MarkRateLimited(rate_limited_until, provider, now)
    /\ marked_at' = MarkedNow(marked_at, provider, now)
    /\ frame' = Disturbed
    /\ UNCHANGED << now, initialized, active_provider, llm_state, sc, lastInv,
                    researchVars, exploreVars, searchVars >>

\* A concurrent call_llm finds every provider in cooldown and clears the
\* map (lines 240-243).
ConcurrentClear ==
    /\ CallerSuspended
    /\ \A p \in Chain : IsInCooldown(rate_limited_until, p, now)
    /\ rate_limited_until' = ClearCooldowns(rate_limited_until)
    /\ marked_at' = NeverMarked
    /\ frame' = Disturbed
    /\ UNCHANGED << now, initialized, active_provider, llm_state, sc, lastInv,
                    researchVars, exploreVars, searchVars >>

\* time.monotonic() advances.
Tick ==
    /\ CallerSuspended
    /\ now < MaxTicks * TickSeconds
    /\ now' = now + TickSeconds
    /\ UNCHANGED << rate_limited_until, initialized, active_provider,
                    llm_state, frame, sc, lastInv, marked_at, researchVars,
                    exploreVars, searchVars >>

(***************************************************************************)
(* api/research.py and db.py: the research orchestrator.                   *)
(*                                                                         *)
(* A stream is the async generator an accepted request hands to            *)
(* StreamingResponse.  It is parked at a yield (pc "y<line>"), at an await *)
(* that suspends (pc "a<line>") or before its last resumption (pc "last"); *)
(* every action below resumes one stream and runs it to its next           *)
(* suspension.  The transport iterates the generator it was handed and     *)
(* closes it, at the suspension point where it is parked, when the client  *)
(* goes away.  call_llm_structured is seen from its caller here: it        *)
(* returns an instance or raises LLMError or LLMValidationError.           *)
(***************************************************************************)
Slots == 1..MaxStreams
NoJourneyId == 0
JourneyIds == 1..(MaxStartRequests + 1)

\* Prompts a client may send; request.prompt.strip() removes the padding.
Prompts == { "idea", " idea " }
Strip(prompt) == IF prompt = " idea " THEN "idea" ELSE prompt
\* sha256(prompt).hexdigest()[:16]
Sha256Hex16(prompt) ==
    CASE prompt = "idea"   -> "6f1ed002ab559585"
      [] prompt = " idea " -> "d9298a10d1b07358"
      [] OTHER             -> "e3b0c44298fc1c14"

\* _make_dedup_key
MakeDedupKey(journey_id, prompt) ==
    IF journey_id # NoJourneyId
    THEN [ns |-> "journey", journey |-> journey_id, digest |-> ""]
    ELSE [ns |-> "prompt", journey |-> NoJourneyId,
          digest |-> Sha256Hex16(prompt)]
NoKey == [ns |-> "", journey |-> NoJourneyId, digest |-> ""]

\* Variant: the in-flight check never finds the key.
KeyNeverInFlight(key, active) == FALSE

\* Lines 86 and 122: dedup_key in _active_researches
KeyInFlight(key, active) == key \in active

\* Lines 89 and 125: _active_researches[dedup_key] = True
InsertKey(active, key) == active \cup {key}

\* Variant: the generator ends without releasing its key.
FinallyKeepsKey(active, key) == active

\* Lines 95-96 and 150-151: _active_researches.pop(dedup_key, None)
Finally(active, key) == active \ {key}

(***************************************************************************)
(* db.py: journeys and journey_steps.                                      *)
(***************************************************************************)
\* create_journey: the row inserted; the id of a journey is its position.
CreateJourney(rows, intent_type) ==
    Append(rows, [intent_type |-> intent_type, status |-> "active"])

NoJourney == [found |-> FALSE, intent_type |-> "", status |-> "", steps |-> << >>]

StepRow(journey_id, step_number, step_type) ==
    [journey_id |-> journey_id, step_number |-> step_number,
     step_type |-> step_type]

\* The rows of journey_steps of one journey.
StepsOf(table, journey_id) ==
    SelectSeq(table, LAMBDA row : row.journey_id = journey_id)

\* A lookup that answers for every id, with an empty journey when there is
\* no row.
GetJourneyAlways(rows, table, journey_id) ==
    IF journey_id \in 1..Len(rows)
    THEN [found |-> TRUE, intent_type |-> rows[journey_id].intent_type,
          status |-> rows[journey_id].status,
          steps |-> StepsOf(table, journey_id)]
    ELSE [NoJourney EXCEPT !.found = TRUE]

\* get_journey: the journey row with its steps, or None.
GetJourney(rows, table, journey_id) ==
    IF journey_id \in 1..Len(rows)
    THEN [found |-> TRUE, intent_type |-> rows[journey_id].intent_type,
          status |-> rows[journey_id].status,
          steps |-> StepsOf(table, journey_id)]
    ELSE NoJourney

\* A status update that does not reach the row.
UpdateJourneyStatusLost(rows, journey_id, status) == rows

\* update_journey_status
UpdateJourneyStatus(rows, journey_id, status) ==
    [rows EXCEPT ![journey_id].status = status]

\* get_next_step_number: max(step_number) + 1, or 1 without steps.
GetNextStepNumber(table, journey_id) ==
    LET steps == StepsOf(table, journey_id)
        numbers == { steps[i].step_number : i \in 1..Len(steps) }
    IN  IF numbers = {} THEN 1
        ELSE (CHOOSE n \in numbers : \A m \in numbers : m <= n) + 1

\* Variant: the insert is lost.
SaveJourneyStepLost(table, journey_id, step_number, step_type) == table

\* save_journey_step: the row is inserted.
SaveJourneyStep(table, journey_id, step_number, step_type) ==
    Append(table, StepRow(journey_id, step_number, step_type))

\* get_next_step_number followed by save_journey_step, as every selection
\* pipeline does without suspending in between.
SaveNextStep(table, journey_id, step_type) ==
    SaveJourneyStep(table, journey_id,
                    GetNextStepNumber(table, journey_id), step_type)

(***************************************************************************)
(* api/research.py: requests, streams and events.                          *)
(***************************************************************************)
StepTypes == { "clarify", "select_competitors", "select_problems", "bogus" }

\* What the classify call returns: the intent and whether clarification
\* questions come with it.
ClassifyResults ==
    { r \in [ intent_type : {"build", "explore", "improve", "small_talk",
                             "off_topic"},
              questions : BOOLEAN ] :
        r.intent_type \in {"small_talk", "off_topic"} => ~r.questions }
NoClassifyResult == [intent_type |-> "", questions |-> FALSE]

\* What one competitor unit of the explore phase hands to gather: a profile
\* built by the gateway, a profile from the product cache, or an error.
UnitResults == { "profile", "cached", "error" }
RECURSIVE SeqsOf(_, _)
SeqsOf(S, n) ==
    IF n = 0 THEN { << >> }
    ELSE { Append(q, x) : q \in SeqsOf(S, n - 1), x \in S }

StructuredErrors == { "LLMError", "LLMValidationError" }

Event(type, name) == [type |-> type, name |-> name]

\* The locals of one stream, with what it did so far: events lists the
\* events it yielded, saved counts the rows it added to journey_steps,
\* llm_calls the calls of call_llm_structured it made, llm_raised tells
\* whether a call of a phase (not of one competitor) raised, failed whether
\* anything in the pipeline failed; ended_by is how it ended.
NewStream(kind, dedup_key, prompt, journey_id, step_type, selected, journey) ==
    [ pc |-> "created", kind |-> kind, dedup_key |-> dedup_key,
      prompt |-> prompt, journey_id |-> journey_id, step_type |-> step_type,
      selected |-> selected, journey |-> journey,
      classify_result |-> NoClassifyResult, units |-> << >>, i |-> 0,
      events |-> << >>, saved |-> 0, llm_calls |-> 0, llm_raised |-> FALSE,
      failed |-> FALSE, ended_by |-> "none" ]

FreeSlot == [NewStream("", NoKey, "", NoJourneyId, "", 0, NoJourney)
                EXCEPT !.pc = "free"]
NoStream == [FreeSlot EXCEPT !.pc = "none"]

Response(status, kind, dedup_key) ==
    [status |-> status, kind |-> kind, dedup_key |-> dedup_key]
NoResponse == Response(0, "", NoKey)

HasFreeSlot == \E s \in Slots : streams[s].pc = "free"
FirstFreeSlot ==
    CHOOSE s \in Slots :
        /\ streams[s].pc = "free"
        /\ \A t \in Slots : streams[t].pc = "free" => s <= t

\* start_research (lines 83-106).
StartResearch(request_prompt) ==
    LET prompt == Strip(request_prompt)
        dedup_key == MakeDedupKey(NoJourneyId, prompt)
    IN  /\ IF KeyInFlight(dedup_key, active_researches)
           THEN /\ response' = Response(409, "start", dedup_key)
                /\ UNCHANGED << active_researches, streams, requests >>
           ELSE /\ requests.start < MaxStartRequests
                /\ HasFreeSlot
                /\ active_researches' = InsertKey(active_researches, dedup_key)
                /\ streams' = [streams EXCEPT ![FirstFreeSlot] =
                        NewStream("start", dedup_key, prompt, NoJourneyId,
                                  "", 0, NoJourney)]
                /\ requests' = [requests EXCEPT !.start = @ + 1]
                /\ response' = Response(200, "start", dedup_key)
        /\ ended' = NoStream
        /\ UNCHANGED << journeys, journey_steps, llmVars, exploreVars,
                        searchVars >>

\* submit_selection (lines 117-161); selected is the number of presented
\* competitors the selection names.
SubmitSelection(journey_id, step_type, selected) ==
    LET journey == GetJourney(journeys, journey_steps, journey_id)
        dedup_key == MakeDedupKey(journey_id, "")
    IN  /\ IF ~journey.found
           THEN /\ response' = Response(404, "selection", NoKey)
                /\ UNCHANGED << active_researches, streams, requests >>
           ELSE IF KeyInFlight(dedup_key, active_researches)
           THEN /\ response' = Response(409, "selection", dedup_key)
                /\ UNCHANGED << active_researches, streams, requests >>
           ELSE /\ requests.selection < MaxSelectionRequests
                /\ HasFreeSlot
                /\ active_researches' = InsertKey(active_researches, dedup_key)
                /\ streams' = [streams EXCEPT ![FirstFreeSlot] =
                        NewStream("selection", dedup_key, "", journey_id,
                                  step_type, selected, journey)]
                /\ requests' = [requests EXCEPT !.selection = @ + 1]
                /\ response' = Response(200, "selection", dedup_key)
        /\ ended' = NoStream
        /\ UNCHANGED << journeys, journey_steps, llmVars, exploreVars,
                        searchVars >>

\* One resumption of the generator of stream s: its new locals and what it
\* left in the in-flight set and in the store.
Resume(s, st, active, rows, table) ==
    /\ streams' = [streams EXCEPT ![s] =
            [st EXCEPT !.saved = @ + Len(table) - Len(journey_steps)]]
    /\ active_researches' = active
    /\ journeys' = rows
    /\ journey_steps' = table
    /\ response' = NoResponse
    /\ ended' = NoStream
    /\ UNCHANGED << requests, llmVars, exploreVars, searchVars >>

\* The last resumption of the generator of stream s: the finally clause of
\* stream() runs and the generator is gone.
Finish(s, how) ==
    /\ streams' = [streams EXCEPT ![s] = FreeSlot]
    /\ active_researches' = Finally(active_researches, streams[s].dedup_key)
    /\ response' = NoResponse
    /\ ended' = [streams[s] EXCEPT !.pc = "ended", !.ended_by = how]
    /\ UNCHANGED << journeys, journey_steps, requests, llmVars, exploreVars,
                    searchVars >>

\* An event that overtakes the events yielded before it.
EmitFirst(st, pc, event) ==
    [st EXCEPT !.pc = pc, !.events = << event >> \o @]

Emit(st, pc, event) == [st EXCEPT !.pc = pc, !.events = Append(@, event)]
Goes(s, st) == Resume(s, st, active_researches, journeys, journey_steps)
Saves(s, st, table) == Resume(s, st, active_researches, journeys, table)
At(s, kind, step_type, pc) ==
    /\ streams[s].pc = pc
    /\ streams[s].kind = kind
    /\ kind = "selection" => streams[s].step_type = step_type

(***************************************************************************)
(* _run_classify_pipeline.                                                 *)
(***************************************************************************)
\* Lines 171-176.
ClassifyBegin(s) ==
    /\ At(s, "start", "", "created")
    /\ Goes(s, Emit(streams[s], "y176", Event("step_started", "classifying")))

\* Line 179: the classify call is awaited.
ClassifyCall(s) ==
    /\ At(s, "start", "", "y176")
    /\ Goes(s, [streams[s] EXCEPT !.pc = "a179", !.llm_calls = @ + 1])

\* Lines 179-186.
ClassifyReturns(s, result) ==
    /\ At(s, "start", "", "a179")
    /\ Goes(s, Emit([streams[s] EXCEPT !.classify_result = result], "y186",
                    Event("step_completed", "classifying")))

\* A quick response that leaves a journey behind.
ClassifyQuickResponseCreates(s) ==
    LET st == streams[s]
    IN  /\ At(s, "start", "", "y186")
        /\ st.classify_result.intent_type \in {"small_talk", "off_topic"}
        /\ Resume(s, Emit(st, "last", Event("quick_response", "")),
                  active_researches,
                  CreateJourney(journeys, st.classify_result.intent_type),
                  journey_steps)

\* Lines 191-198.
ClassifyQuickResponse(s) ==
    /\ At(s, "start", "", "y186")
    /\ streams[s].classify_result.intent_type \in {"small_talk", "off_topic"}
    /\ Goes(s, Emit(streams[s], "last", Event("quick_response", "")))

\* The intent the journey is created with (lines 200-201).
RedirectedIntent(intent_type) ==
    IF intent_type = "improve" THEN "explore" ELSE intent_type

\* A pipeline that creates the journey without announcing it.
ClassifyCreateJourneyUnannounced(s, created) ==
    LET st == streams[s]
        rows == CreateJourney(journeys,
                              RedirectedIntent(st.classify_result.intent_type))
    IN  /\ At(s, "start", "", "y186")
        /\ st.classify_result.intent_type \notin {"small_talk", "off_topic"}
        /\ created
        /\ Resume(s, [st EXCEPT !.journey_id = Len(rows), !.pc = "y216"],
                  active_researches, rows, journey_steps)

\* Lines 200-216: create_journey returns the id of the new row, or "".
ClassifyCreateJourney(s, created) ==
    LET st == streams[s]
        intent_type == RedirectedIntent(st.classify_result.intent_type)
        rows == CreateJourney(journeys, intent_type)
    IN  /\ At(s, "start", "", "y186")
        /\ st.classify_result.intent_type \notin {"small_talk", "off_topic"}
        /\ IF created
           THEN Resume(s, Emit([st EXCEPT !.journey_id = Len(rows)], "y216",
                               Event("journey_started", intent_type)),
                       active_researches, rows, journey_steps)
           ELSE Goes(s, Emit([st EXCEPT !.failed = TRUE], "last",
                             Event("error", "saving")))

\* A redirect that is not announced.
ClassifyRedirectSilent(s) ==
    /\ At(s, "start", "", "y216")
    /\ streams[s].classify_result.intent_type = "improve"
    /\ Goes(s, [streams[s] EXCEPT !.pc = "y225"])

\* Lines 219-225.
ClassifyRedirect(s) ==
    /\ At(s, "start", "", "y216")
    /\ streams[s].classify_result.intent_type = "improve"
    /\ Goes(s, Emit(streams[s], "y225", Event("intent_redirect", "explore")))

\* Lines 227-250: the classify Step is saved with step_number=1.
ClassifySaveStep(s) ==
    LET st == streams[s]
        table == SaveJourneyStep(journey_steps, st.journey_id, 1, "classify")
    IN  /\ \/ At(s, "start", "", "y225")
           \/ /\ At(s, "start", "", "y216")
              /\ st.classify_result.intent_type # "improve"
        /\ IF st.classify_result.questions
           THEN Saves(s, Emit(st, "y246", Event("clarification_needed", "")),
                      table)
           ELSE Saves(s, Emit(st, "last",
                              Event("waiting_for_selection", "clarification")),
                      table)

\* Lines 249-250.
ClassifyWaiting(s) ==
    /\ At(s, "start", "", "y246")
    /\ Goes(s, Emit(streams[s], "last",
                    Event("waiting_for_selection", "clarification")))

(***************************************************************************)
(* submit_selection.stream and _run_competitor_pipeline.                   *)
(***************************************************************************)
\* The recoverable field of an error event: every ErrorEvent of research.py
\* is built with recoverable=False (lines 146, 209, 260, 269, 387, 396, 609,
\* 618, 784, 793).
Recoverable(event) == FALSE

\* An unknown step type that is persisted as a Step before it is refused.
InvalidStepTypeSaves(s) ==
    /\ At(s, "selection", "bogus", "created")
    /\ Saves(s, Emit(streams[s], "last", Event("error", "invalid_step_type")),
             SaveNextStep(journey_steps, streams[s].journey_id, "bogus"))

\* Lines 141-149.
InvalidStepType(s) ==
    /\ At(s, "selection", "bogus", "created")
    /\ Goes(s, Emit(streams[s], "last", Event("error", "invalid_step_type")))

\* Lines 282-308.
CompetitorBegin(s) ==
    LET st == streams[s]
    IN  /\ At(s, "selection", "clarify", "created")
        /\ Saves(s, Emit(st, "y308",
                         Event("step_started", "finding_competitors")),
                 SaveNextStep(journey_steps, st.journey_id, "clarify"))

\* Lines 311-329: the searches are awaited.
CompetitorSearch(s) ==
    /\ At(s, "selection", "clarify", "y308")
    /\ Goes(s, [streams[s] EXCEPT !.pc = "a325"])

\* Lines 331-346: the competitors call is awaited.
CompetitorCall(s) ==
    /\ At(s, "selection", "clarify", "a325")
    /\ Goes(s, [streams[s] EXCEPT !.pc = "a342", !.llm_calls = @ + 1])

\* Lines 348-371.
CompetitorReturns(s) ==
    LET st == streams[s]
    IN  /\ At(s, "selection", "clarify", "a342")
        /\ Saves(s, Emit(st, "y371", Event("block_ready", "competitor_list")),
                 SaveNextStep(journey_steps, st.journey_id, "find_competitors"))

\* A pipeline that goes on to the selection without closing its step.
CompetitorCompletedSkipped(s) ==
    /\ At(s, "selection", "clarify", "y371")
    /\ Goes(s, [streams[s] EXCEPT !.pc = "y375"])

\* Lines 374-375.
CompetitorCompleted(s) ==
    /\ At(s, "selection", "clarify", "y371")
    /\ Goes(s, Emit(streams[s], "y375",
                    Event("step_completed", "finding_competitors")))

\* Lines 377-378.
CompetitorWaiting(s) ==
    /\ At(s, "selection", "clarify", "y375")
    /\ Goes(s, Emit(streams[s], "last",
                    Event("waiting_for_selection", "competitors")))

(***************************************************************************)
(* _run_explore_pipeline and _run_gap_analysis.                            *)
(***************************************************************************)
\* Lines 416-424: the competitors selected among those the find_competitors
\* Step of the snapshot presented.
SelectedCompetitors(st) ==
    IF \E k \in 1..Len(st.journey.steps) :
            st.journey.steps[k].step_type = "find_competitors"
    THEN st.selected
    ELSE 0

\* Lines 409-440.
ExploreBegin(s) ==
    LET st == streams[s]
    IN  /\ At(s, "selection", "select_competitors", "created")
        /\ Saves(s, Emit(st, "y440", Event("step_started", "exploring")),
                 SaveNextStep(journey_steps, st.journey_id,
                              "select_competitors"))

\* Lines 443-521: the competitor units are gathered.
ExploreGather(s) ==
    /\ At(s, "selection", "select_competitors", "y440")
    /\ SelectedCompetitors(streams[s]) > 0
    /\ Goes(s, [streams[s] EXCEPT !.pc = "a521"])

\* The event of lines 523-550 for one unit result.
UnitEvent(result) ==
    IF result = "error"
    THEN Event("block_error", "competitor")
    ELSE Event("block_ready", "product_profile")

\* Lines 521-550: gather returns; the first result is reported.  A unit that
\* did not find its product in the cache called the gateway once.
ExploreGathered(s, results) ==
    LET st == streams[s]
        calls == Cardinality({ k \in 1..Len(results) : results[k] # "cached" })
    IN  /\ At(s, "selection", "select_competitors", "a521")
        /\ Len(results) = SelectedCompetitors(st)
        /\ Goes(s, Emit([st EXCEPT !.units = results, !.i = 1,
                                   !.llm_calls = @ + calls,
                                   !.failed = \E k \in 1..Len(results) :
                                                  results[k] = "error"],
                        "y550", UnitEvent(results[1])))

\* Lines 523-550: the next result is reported.
ExploreNextUnit(s) ==
    LET st == streams[s]
    IN  /\ At(s, "selection", "select_competitors", "y550")
        /\ st.i < Len(st.units)
        /\ Goes(s, Emit([st EXCEPT !.i = @ + 1], "y550",
                        UnitEvent(st.units[st.i + 1])))

\* Lines 552-558: the market overview call is awaited (directly after the
\* step_started event when nothing was selected: gather of no task does not
\* suspend).
ExploreOverviewCall(s) ==
    LET st == streams[s]
    IN  /\ \/ /\ At(s, "selection", "select_competitors", "y550")
              /\ st.i = Len(st.units)
           \/ /\ At(s, "selection", "select_competitors", "y440")
              /\ SelectedCompetitors(st) = 0
        /\ Goes(s, [st EXCEPT !.pc = "a554", !.llm_calls = @ + 1])

\* Lines 554-576: the overview block, or a block error when the call raised.
ExploreOverviewDone(s, returned) ==
    /\ At(s, "selection", "select_competitors", "a554")
    /\ Goes(s, Emit([streams[s] EXCEPT !.llm_raised = @ \/ ~returned,
                                       !.failed = @ \/ ~returned],
                    "y568",
                    IF returned
                    THEN Event("block_ready", "market_overview")
                    ELSE Event("block_error", "Market Overview")))

\* Lines 578-579.
ExploreCompleted(s) ==
    /\ At(s, "selection", "select_competitors", "y568")
    /\ Goes(s, Emit(streams[s], "y579", Event("step_completed", "exploring")))

\* Lines 589-600: a journey that is not a build journey ends here.
ExploreFinish(s) ==
    LET st == streams[s]
    IN  /\ At(s, "selection", "select_competitors", "y579")
        /\ st.journey.intent_type # "build"
        /\ Resume(s, Emit(st, "last", Event("research_complete", "")),
                  active_researches,
                  UpdateJourneyStatus(journeys, st.journey_id, "completed"),
                  SaveNextStep(journey_steps, st.journey_id, "explore"))

\* Lines 581-582 and 637-641.
GapBegin(s) ==
    LET st == streams[s]
    IN  /\ At(s, "selection", "select_competitors", "y579")
        /\ st.journey.intent_type = "build"
        /\ Goes(s, Emit(st, "y641", Event("step_started", "gap_analyzing")))

\* Lines 643-650: the gap analysis call is awaited.
GapCall(s) ==
    /\ At(s, "selection", "select_competitors", "y641")
    /\ Goes(s, [streams[s] EXCEPT !.pc = "a646", !.llm_calls = @ + 1])

\* Lines 652-670.
GapReturns(s) ==
    LET st == streams[s]
    IN  /\ At(s, "selection", "select_competitors", "a646")
        /\ Saves(s, Emit(st, "y670", Event("block_ready", "gap_analysis")),
                 SaveNextStep(journey_steps, st.journey_id, "explore"))

\* Lines 675-683: the call raised.
GapRaises(s, error) ==
    /\ At(s, "selection", "select_competitors", "a646")
    /\ Goes(s, Emit([streams[s] EXCEPT !.llm_raised = TRUE,
                                       !.failed = TRUE], "y683",
                    Event("block_error", "Gap Analysis")))

\* Lines 672-673.
GapCompleted(s) ==
    /\ At(s, "selection", "select_competitors", "y670")
    /\ Goes(s, Emit(streams[s], "y673",
                    Event("step_completed", "gap_analyzing")))

\* Lines 587-588.
ExploreWaiting(s) ==
    /\ \/ At(s, "selection", "select_competitors", "y673")
       \/ At(s, "selection", "select_competitors", "y683")
    /\ Goes(s, Emit(streams[s], "last",
                    Event("waiting_for_selection", "problems")))

(***************************************************************************)
(* _run_problem_pipeline.                                                  *)
(***************************************************************************)
\* A problem phase that marks the journey completed when it starts.
ProblemBeginCompletes(s) ==
    LET st == streams[s]
    IN  /\ At(s, "selection", "select_problems", "created")
        /\ Resume(s, Emit(st, "y735",
                          Event("step_started", "defining_problem")),
                  active_researches,
                  UpdateJourneyStatus(journeys, st.journey_id, "completed"),
                  SaveNextStep(journey_steps, st.journey_id,
                               "select_problems"))

\* Lines 693-735.
ProblemBegin(s) ==
    LET st == streams[s]
    IN  /\ At(s, "selection", "select_problems", "created")
        /\ Saves(s, Emit(st, "y735", Event("step_started", "defining_problem")),
                 SaveNextStep(journey_steps, st.journey_id, "select_problems"))

\* Lines 737-747: the problem statement call is awaited.
ProblemCall(s) ==
    /\ At(s, "selection", "select_problems", "y735")
    /\ Goes(s, [streams[s] EXCEPT !.pc = "a743", !.llm_calls = @ + 1])

\* Lines 749-767.
ProblemReturns(s) ==
    LET st == streams[s]
    IN  /\ At(s, "selection", "select_problems", "a743")
        /\ Saves(s, Emit(st, "y767", Event("block_ready", "problem_statement")),
                 SaveNextStep(journey_steps, st.journey_id, "define_problem"))

\* Lines 769-770.
ProblemCompleted(s) ==
    /\ At(s, "selection", "select_problems", "y767")
    /\ Goes(s, Emit(streams[s], "y770",
                    Event("step_completed", "defining_problem")))

\* Lines 772-775.
ProblemFinish(s) ==
    LET st == streams[s]
    IN  /\ At(s, "selection", "select_problems", "y770")
        /\ Resume(s, Emit(st, "last", Event("research_complete", "")),
                  active_researches,
                  UpdateJourneyStatus(journeys, st.journey_id, "completed"),
                  journey_steps)

(***************************************************************************)
(* The ends of a stream.                                                   *)
(***************************************************************************)
\* The awaits of call_llm_structured whose exceptions reach the handlers of
\* lines 255, 382 and 779 (the calls of the explore phase have handlers of
\* their own).
GuardedAwaits == { "a179", "a342", "a743" }

\* A handler that ends the stream without reporting the failure.
LlmRaisesUnreported(s, error) ==
    /\ streams[s].pc \in GuardedAwaits
    /\ Goes(s, [streams[s] EXCEPT !.pc = "last", !.llm_raised = TRUE,
                                  !.failed = TRUE])

\* Lines 255-263, 382-390, 779-787: the call raised LLMError or
\* LLMValidationError.
LlmRaises(s, error) ==
    /\ streams[s].pc \in GuardedAwaits
    /\ Goes(s, Emit([streams[s] EXCEPT !.llm_raised = TRUE,
                                       !.failed = TRUE], "last",
                    Event("error", "generating")))

\* The generator is resumed after its last yield and returns.
GeneratorReturns(s) ==
    /\ streams[s].pc = "last"
    /\ Finish(s, "returned")

\* The stream is parked at a yield or at an await.
Parked(st) == st.pc \notin { "free", "created" }

\* The client went away: the transport closes the generator where it is
\* parked.
ClientGone(s) ==
    /\ Parked(streams[s])
    /\ Finish(s, "closed")

InitResearch ==
    /\ active_researches = {}
    /\ journeys = << >>
    /\ journey_steps = << >>
    /\ streams = [s \in Slots |-> FreeSlot]
    /\ response = NoResponse
    /\ requests = [start |-> 0, selection |-> 0]
    /\ ended = NoStream

NextResearch ==
    \/ \E p \in Prompts : StartResearch(p)
    \/ \E j \in JourneyIds, t \in StepTypes, n \in 0..MaxCompetitors :
          /\ t # "select_competitors" => n = 0
          /\ SubmitSelection(j, t, n)
    \/ \E s \in Slots :
          \/ ClassifyBegin(s)
          \/ ClassifyCall(s)
          \/ \E r \in ClassifyResults : ClassifyReturns(s, r)
          \/ ClassifyQuickResponse(s)
          \/ \E created \in BOOLEAN : ClassifyCreateJourney(s, created)
          \/ ClassifyRedirect(s)
          \/ ClassifySaveStep(s)
          \/ ClassifyWaiting(s)
          \/ InvalidStepType(s)
          \/ CompetitorBegin(s)
          \/ CompetitorSearch(s)
          \/ CompetitorCall(s)
          \/ CompetitorReturns(s)
          \/ CompetitorCompleted(s)
          \/ CompetitorWaiting(s)
          \/ ExploreBegin(s)
          \/ ExploreGather(s)
          \/ \E n \in 1..MaxCompetitors :
                \E results \in SeqsOf(UnitResults, n) :
                    ExploreGathered(s, results)
          \/ ExploreNextUnit(s)
          \/ ExploreOverviewCall(s)
          \/ \E returned \in BOOLEAN : ExploreOverviewDone(s, returned)
          \/ ExploreCompleted(s)
          \/ ExploreFinish(s)
          \/ GapBegin(s)
          \/ GapCall(s)
          \/ GapReturns(s)
          \/ \E e \in StructuredErrors : GapRaises(s, e)
          \/ GapCompleted(s)
          \/ ExploreWaiting(s)
          \/ ProblemBegin(s)
          \/ ProblemCall(s)
          \/ ProblemReturns(s)
          \/ ProblemCompleted(s)
          \/ ProblemFinish(s)
          \/ \E e \in StructuredErrors : LlmRaises(s, e)
          \/ GeneratorReturns(s)
          \/ ClientGone(s)

(***************************************************************************)
(* The explore phase at the level of its competitor units                  *)
(* (api/research.py lines 443-579, scraper.py): the tasks of               *)
(* process_competitor run concurrently under asyncio.gather, each from     *)
(* one await to the next; the generator goes on when all of them are done. *)
(***************************************************************************)
\* A selected competitor: whether the products cache holds it and whether
\* it has a url.
CompetitorKinds ==
    { [cached |-> TRUE, url |-> TRUE], [cached |-> FALSE, url |-> TRUE],
      [cached |-> FALSE, url |-> FALSE] }

Units == 1..Len(selected_competitors)

\* The locals of one task of process_competitor; scrape_raised and
\* llm_raised record what its awaits raised.
NewTask ==
    [ pc |-> "new", scraped |-> FALSE, scrape_raised |-> FALSE,
      llm_raised |-> FALSE, result |-> "none" ]

BlockEvent(type, name, comp) == [type |-> type, name |-> name, comp |-> comp]

\* generate_error_code: every call returns a new code, named here by the
\* line of the call and the competitor unit it is made for.
Code(line, unit) == [line |-> line, unit |-> unit]
NoCode == Code(0, 0)

\* The generator of _run_explore_pipeline from its step_started event on.
NewExploring ==
    [ pc |-> "y440", i |-> 0, results |-> << >>, profiles |-> << >>,
      overview_input |-> << >>, overview_raised |-> FALSE,
      events |-> << BlockEvent("step_started", "exploring", 0) >>,
      error_codes |-> << NoCode >> ]

NoExploring ==
    [NewExploring EXCEPT !.pc = "none", !.events = << >>,
                         !.error_codes = << >>]

\* asyncio.Semaphore(2) of scraper.py: its value and its waiters, first
\* come first served.
ScrapePermits == 2
NewSemaphore == [value |-> ScrapePermits, waiters |-> << >>]

\* An acquire that never waits.
AcquireUnbounded(sem, k) == [sem EXCEPT !.value = @ - 1]

\* Semaphore.acquire by task k: taken at once, or the task waits in line.
Acquire(sem, k) ==
    IF sem.value > 0 /\ sem.waiters = << >>
    THEN [sem EXCEPT !.value = @ - 1]
    ELSE [sem EXCEPT !.waiters = Append(@, k)]

\* Semaphore.release: the permit goes to the first waiter, if any.
ReleasePermit(sem) ==
    IF sem.waiters # << >>
    THEN [sem EXCEPT !.waiters = Tail(@)]
    ELSE [sem EXCEPT !.value = @ + 1]

\* The tasks after task k released its permit and went to pc with the
\* given locals: the first waiter enters its scrape.
AfterRelease(sem, k, mine) ==
    [u \in Units |->
        IF u = k THEN mine
        ELSE IF sem.waiters # << >> /\ u = Head(sem.waiters)
             THEN [tasks[u] EXCEPT !.pc = "jina"]
             ELSE tasks[u]]

\* Lines 520-521: the tasks are created and gathered.  Gathering no task
\* does not suspend: the generator is then at the market overview call.
GatherTasks ==
    /\ exploring.pc = "y440"
    /\ exploring' = [exploring EXCEPT
                        !.pc = IF Units = {} THEN "a554" ELSE "a521"]
    /\ UNCHANGED << llmVars, researchVars, searchVars, selected_competitors,
                    tasks, scrape_semaphore, server_log >>

\* Lines 455-482 and scraper.py 42-49: a task runs to its first await.  A
\* cached product is its result at once; a competitor with a url asks for a
\* scrape permit; one without goes to the reddit search.
ProcessCompetitor(k) ==
    LET comp == selected_competitors[k]
        sem == Acquire(scrape_semaphore, k)
    IN  /\ exploring.pc = "a521"
        /\ tasks[k].pc = "new"
        /\ IF comp.cached
           THEN /\ tasks' = [tasks EXCEPT ![k].pc = "done",
                                          ![k].result = "profile"]
                /\ UNCHANGED scrape_semaphore
           ELSE IF comp.url
           THEN /\ scrape_semaphore' = sem
                /\ tasks' = [tasks EXCEPT ![k].pc =
                                IF sem.waiters = scrape_semaphore.waiters
                                THEN "jina" ELSE "acquire"]
           ELSE /\ tasks' = [tasks EXCEPT ![k].pc = "reddit"]
                /\ UNCHANGED scrape_semaphore
        /\ UNCHANGED << llmVars, researchVars, searchVars, selected_competitors,
                        exploring, server_log >>

\* scraper.py 46-49: Jina returned the page; the permit is released.
JinaReturns(k) ==
    /\ tasks[k].pc = "jina"
    /\ scrape_semaphore' = ReleasePermit(scrape_semaphore)
    /\ tasks' = AfterRelease(scrape_semaphore, k,
                    [tasks[k] EXCEPT !.pc = "reddit", !.scraped = TRUE])
    /\ UNCHANGED << llmVars, researchVars, searchVars, selected_competitors,
                    exploring, server_log >>

\* scraper.py 50-54: Jina raised ScraperError; the fallback is awaited.
JinaRaises(k) ==
    /\ tasks[k].pc = "jina"
    /\ tasks' = [tasks EXCEPT ![k].pc = "bs4"]
    /\ UNCHANGED << llmVars, researchVars, searchVars, selected_competitors,
                    exploring, scrape_semaphore, server_log >>

\* scraper.py 54-57.
Bs4Returns(k) ==
    /\ tasks[k].pc = "bs4"
    /\ scrape_semaphore' = ReleasePermit(scrape_semaphore)
    /\ tasks' = AfterRelease(scrape_semaphore, k,
                    [tasks[k] EXCEPT !.pc = "reddit", !.scraped = TRUE])
    /\ UNCHANGED << llmVars, researchVars, searchVars, selected_competitors,
                    exploring, server_log >>

\* scraper.py 58-62 and research.py 480-484: both methods failed, scrape
\* logs the failure under a code of its own and raises ScraperError, which
\* process_competitor passes over.
Bs4Raises(k) ==
    /\ tasks[k].pc = "bs4"
    /\ scrape_semaphore' = ReleasePermit(scrape_semaphore)
    /\ tasks' = AfterRelease(scrape_semaphore, k,
                    [tasks[k] EXCEPT !.pc = "reddit", !.scrape_raised = TRUE])
    /\ server_log' = server_log \cup { Code(60, k) }
    /\ UNCHANGED << llmVars, researchVars, searchVars, selected_competitors,
                    exploring >>

\* An exception of scrape that is no ScraperError (httpx.InvalidURL, a
\* parser error) leaves process_competitor; gather returns it as the result.
ScrapeEscapes(k) ==
    /\ tasks[k].pc \in { "jina", "bs4" }
    /\ scrape_semaphore' = ReleasePermit(scrape_semaphore)
    /\ tasks' = AfterRelease(scrape_semaphore, k,
                    [tasks[k] EXCEPT !.pc = "done", !.result = "exception"])
    /\ UNCHANGED << llmVars, researchVars, searchVars, selected_competitors,
                    exploring, server_log >>

\* Lines 486-494: the reddit search returned or raised, either way the
\* profile call is awaited next.
RedditDone(k) ==
    /\ tasks[k].pc = "reddit"
    /\ tasks' = [tasks EXCEPT ![k].pc = "llm"]
    /\ UNCHANGED << llmVars, researchVars, searchVars, selected_competitors,
                    exploring, scrape_semaphore, server_log >>

\* Lines 494-516: the profile call returned; store_product, then the result.
ProfileReturns(k) ==
    /\ tasks[k].pc = "llm"
    /\ tasks' = [tasks EXCEPT ![k].pc = "done", ![k].result = "profile"]
    /\ UNCHANGED << llmVars, researchVars, searchVars, selected_competitors,
                    exploring, scrape_semaphore, server_log >>

\* The code under which the gateway logged the failure it raises: the one
\* of the last failed attempt (llm.py 206) or of the validation failure
\* (llm.py 289).
GatewayCode(k, error) == Code(IF error = "LLMError" THEN 206 ELSE 289, k)

\* Lines 517-518: the profile call raised, the gateway having logged the
\* failure under a code of its own.
ProfileRaises(k, error) ==
    /\ tasks[k].pc = "llm"
    /\ tasks' = [tasks EXCEPT ![k].pc = "done", ![k].result = "error",
                              ![k].llm_raised = TRUE]
    /\ server_log' = server_log \cup { GatewayCode(k, error) }
    /\ UNCHANGED << llmVars, researchVars, searchVars, selected_competitors,
                    exploring, scrape_semaphore >>

\* The event of lines 523-550 for the result of task k.
ResultEventUnnamed(k, result) ==
    IF result = "profile"
    THEN BlockEvent("block_ready", "product_profile", k)
    ELSE BlockEvent("block_error", "Unknown", 0)

ResultEvent(k, result) ==
    CASE result = "exception" -> BlockEvent("block_error", "Unknown", 0)
      [] result = "error"     -> BlockEvent("block_error", "competitor", k)
      [] OTHER                -> BlockEvent("block_ready", "product_profile", k)

\* The error field of a block_error event of the explore phase: str(r) of
\* the exception gather returned (line 526), or the literal of lines 532
\* and 573.
ErrorField(event) ==
    CASE event.name = "Unknown"         -> "exception text"
      [] event.name = "competitor"      -> "We couldn't access this product's website. Other results are still available."
      [] event.name = "Market Overview" -> "We couldn't generate the market overview. Other results are still available."
      [] OTHER                          -> ""

\* The error_code of the event of lines 523-550 for the result of task k:
\* a code generated at line 525 or 531 and handed to the event, nothing
\* else being done with it.
ResultCode(k, result) ==
    CASE result = "exception" -> Code(525, k)
      [] result = "error"     -> Code(531, k)
      [] OTHER                -> NoCode

\* Lines 523-550 for result k: the event, and the profile kept for the
\* market overview.
Report(ex, k) ==
    [ex EXCEPT !.pc = "y550", !.i = k,
               !.events = Append(@, ResultEvent(k, ex.results[k])),
               !.error_codes = Append(@, ResultCode(k, ex.results[k])),
               !.profiles = IF ex.results[k] = "profile"
                            THEN Append(@, k) ELSE @]

\* A gather that returns as soon as one task is done.
GatheredEarly ==
    /\ exploring.pc = "a521"
    /\ \E k \in Units : tasks[k].pc = "done"
    /\ exploring' = Report([exploring EXCEPT
                               !.results = [k \in Units |-> tasks[k].result]],
                           1)
    /\ UNCHANGED << llmVars, researchVars, searchVars, selected_competitors,
                    tasks, scrape_semaphore, server_log >>

\* Line 521: gather returns when every task is done; the first result is
\* reported.
Gathered ==
    /\ exploring.pc = "a521"
    /\ \A k \in Units : tasks[k].pc = "done"
    /\ exploring' = Report([exploring EXCEPT
                               !.results = [k \in Units |-> tasks[k].result]],
                           1)
    /\ UNCHANGED << llmVars, researchVars, searchVars, selected_competitors,
                    tasks, scrape_semaphore, server_log >>

\* Lines 523-550: the next result is reported.
NextResult ==
    /\ exploring.pc = "y550"
    /\ exploring.i < Len(exploring.results)
    /\ exploring' = Report(exploring, exploring.i + 1)
    /\ UNCHANGED << llmVars, researchVars, searchVars, selected_competitors,
                    tasks, scrape_semaphore, server_log >>

\* Lines 552-558: the market overview call is awaited, on the profiles.
MarketOverviewCall ==
    /\ exploring.pc = "y550"
    /\ exploring.i = Len(exploring.results)
    /\ exploring' = [exploring EXCEPT !.pc = "a554",
                                      !.overview_input = exploring.profiles]
    /\ UNCHANGED << llmVars, researchVars, searchVars, selected_competitors,
                    tasks, scrape_semaphore, server_log >>

\* Lines 554-576: the overview block, or a block error under a code of
\* line 570 when the call raised (the gateway having logged the failure
\* under a code of its own).
MarketOverviewDone(returned) ==
    /\ exploring.pc = "a554"
    /\ exploring' =
          [exploring EXCEPT
              !.pc = "y568", !.overview_raised = ~returned,
              !.events = Append(@,
                  IF returned
                  THEN BlockEvent("block_ready", "market_overview", 0)
                  ELSE BlockEvent("block_error", "Market Overview", 0)),
              !.error_codes = Append(@, IF returned THEN NoCode
                                        ELSE Code(570, 0))]
    /\ IF returned
       THEN UNCHANGED server_log
       ELSE \E error \in StructuredErrors :
               server_log' = server_log \cup { GatewayCode(0, error) }
    /\ UNCHANGED << llmVars, researchVars, searchVars, selected_competitors,
                    tasks, scrape_semaphore >>

\* Lines 578-579.
ExploringCompleted ==
    /\ exploring.pc = "y568"
    /\ exploring' = [exploring EXCEPT
                        !.pc = "y579",
                        !.events = Append(@, BlockEvent("step_completed",
                                                        "exploring", 0)),
                        !.error_codes = Append(@, NoCode)]
    /\ UNCHANGED << llmVars, researchVars, searchVars, selected_competitors,
                    tasks, scrape_semaphore, server_log >>

\* No explore phase: the state of these variables in the other
\* specifications.
ExploringAtRest ==
    /\ selected_competitors = << >>
    /\ tasks = << >>
    /\ scrape_semaphore = NewSemaphore
    /\ exploring = NoExploring
    /\ server_log = {}

\* An explore phase of up to MaxUnits selected competitors.
InitExploring ==
    /\ \E n \in 0..MaxUnits :
          selected_competitors \in SeqsOf(CompetitorKinds, n)
    /\ tasks = [k \in Units |-> NewTask]
    /\ scrape_semaphore = NewSemaphore
    /\ exploring = NewExploring
    /\ server_log = {}

NextExploring ==
    \/ GatherTasks
    \/ \E k \in Units :
          \/ ProcessCompetitor(k)
          \/ JinaReturns(k)
          \/ JinaRaises(k)
          \/ Bs4Returns(k)
          \/ Bs4Raises(k)
          \/ ScrapeEscapes(k)
          \/ RedditDone(k)
          \/ ProfileReturns(k)
          \/ \E e \in StructuredErrors : ProfileRaises(k, e)
    \/ Gathered
    \/ NextResult
    \/ MarketOverviewCall
    \/ \E returned \in BOOLEAN : MarketOverviewDone(returned)
    \/ ExploringCompleted

(***************************************************************************)
(* Specifications: the gateway with the orchestrator at rest, the          *)
(* orchestrator with the gateway seen from its callers, and one explore    *)
(* phase with its competitor units.                                        *)
(***************************************************************************)
InitLLM ==
    /\ now = 0
    /\ rate_limited_until = EmptyMap
    /\ initialized = FALSE
    /\ active_provider = 0
    /\ llm_state = 0
    /\ frame = NoFrame
    /\ sc = IdleSc
    /\ lastInv = NoFrame
    /\ marked_at = NeverMarked

NextLLM ==
    \/ StartStructured
    \/ \E r \in Responses : RespondContent(r)
    \/ \E r \in Responses : RespondFailure(r)
    \/ Release
    \/ \E p \in Chain : ConcurrentMark(p)
    \/ ConcurrentClear
    \/ Tick

(***************************************************************************)
(* search.py: search() over Tavily, Serper and DuckDuckGo.                 *)
(***************************************************************************)
Searches == 1..MaxSearches

\* What a provider hands back: a list of results, here empty or holding one
\* result that names the provider it came from.
ProviderResults(provider) == { << >>, << provider >> }

\* The locals of one call of search(): where it is, the providers it has
\* called so far, and how it ended.
NewSearch ==
    [ pc |-> "idle", called |-> << >>, last_error |-> "",
      outcome |-> "none", results |-> << >> ]

\* A fallback chain that goes to Serper whatever the settings say.
AfterTavilyAlwaysSerper(key) == "serper"

\* Line 51: Serper is tried only when its key is configured.
AfterTavily(key) == IF key THEN "serper" ELSE "ddg"

\* Lines 37-42: the call starts with Tavily.
SearchBegins(c) ==
    /\ searching[c].pc = "idle"
    /\ searching' = [searching EXCEPT ![c].pc = "tavily",
                                      ![c].called = << "tavily" >>]
    /\ UNCHANGED << llmVars, researchVars, exploreVars, serper_api_key >>

\* Lines 43-45, 53-55, 61-63: the provider returned; search returns its
\* results.
ProviderReturns(c, results) ==
    /\ searching[c].pc \in { "tavily", "serper", "ddg" }
    /\ results \in ProviderResults(searching[c].pc)
    /\ searching' = [searching EXCEPT ![c].pc = "done",
                                      ![c].outcome = "returned",
                                      ![c].results = results]
    /\ UNCHANGED << llmVars, researchVars, exploreVars, serper_api_key >>

\* Lines 46-48, 56-58: Tavily or Serper raised SearchError; the next
\* provider is called.
ProviderFallsBack(c) ==
    LET sr == searching[c]
        next == IF sr.pc = "tavily" THEN AfterTavily(serper_api_key)
                ELSE "ddg"
    IN  /\ sr.pc \in { "tavily", "serper" }
        /\ searching' = [searching EXCEPT ![c].pc = next,
                                          ![c].last_error = sr.pc,
                                          ![c].called = Append(@, next)]
        /\ UNCHANGED << llmVars, researchVars, exploreVars, serper_api_key >>

\* Lines 64-69: DuckDuckGo raised SearchError as well; the failure is
\* logged under a new code and search returns an empty list.
SearchExhausted(c) ==
    /\ searching[c].pc = "ddg"
    /\ searching' = [searching EXCEPT ![c].pc = "done",
                                      ![c].last_error = "ddg",
                                      ![c].outcome = "returned",
                                      ![c].results = << >>]
    /\ server_log' = server_log \cup { Code(67, c) }
    /\ UNCHANGED << llmVars, researchVars, selected_competitors, tasks,
                    scrape_semaphore, exploring, serper_api_key >>

\* Lines 89-98 and 117-126: the answer of Tavily or Serper is JSON but not
\* of the expected shape (data.get or r.get raises AttributeError), which
\* is no SearchError: the exception leaves search.  _duckduckgo_search
\* wraps every exception (line 146).
ProviderEscapes(c) ==
    /\ searching[c].pc \in { "tavily", "serper" }
    /\ searching' = [searching EXCEPT ![c].pc = "done",
                                      ![c].outcome = "raised"]
    /\ UNCHANGED << llmVars, researchVars, exploreVars, serper_api_key >>

\* No search in progress: the state of these variables in the other
\* specifications.
SearchAtRest ==
    /\ serper_api_key = FALSE
    /\ searching = << >>

InitSearching ==
    /\ serper_api_key \in BOOLEAN
    /\ searching = [c \in Searches |-> NewSearch]

NextSearching ==
    \E c \in Searches :
        \/ SearchBegins(c)
        \/ \E p \in { "tavily", "serper", "ddg" } :
              \E results \in ProviderResults(p) : ProviderReturns(c, results)
        \/ ProviderFallsBack(c)
        \/ SearchExhausted(c)
        \/ ProviderEscapes(c)

Init == InitLLM /\ InitResearch /\ ExploringAtRest /\ SearchAtRest

SpecLLM == Init /\ [][NextLLM]_vars

\* The gateway of a process that finds a preference in the store: the
\* llm_state row names no provider (no row) or the last entry of the chain.
StoredPreferences == { 0, ChainLen }

InitStored ==
    /\ now = 0
    /\ rate_limited_until = EmptyMap
    /\ initialized = FALSE
    /\ active_provider = 0
    /\ llm_state \in StoredPreferences
    /\ frame = NoFrame
    /\ sc = IdleSc
    /\ lastInv = NoFrame
    /\ marked_at = NeverMarked
    /\ InitResearch
    /\ ExploringAtRest
    /\ SearchAtRest

SpecLLMStored == InitStored /\ [][NextLLM]_vars

SpecResearch == Init /\ [][NextResearch]_vars

InitExplore == InitLLM /\ InitResearch /\ InitExploring /\ SearchAtRest

InitSearch == InitLLM /\ InitResearch /\ ExploringAtRest /\ InitSearching

SpecSearch == InitSearch /\ [][NextSearching]_vars

SpecExplore == InitExplore /\ [][NextExploring]_vars

\* The scrape of task k ends: the awaits of scraper.py are requests of
\* httpx clients built with a timeout (30 s for Jina at line 75, 15 s for
\* the fallback at line 91), so each of them returns or raises.
ScrapeEnds(k) ==
    /\ k \in Units
    /\ \/ JinaReturns(k)
       \/ JinaRaises(k)
       \/ Bs4Returns(k)
       \/ Bs4Raises(k)
       \/ ScrapeEscapes(k)

\* The explore phase in which no scrape hangs for ever.
SpecExploreFair ==
    /\ InitExplore
    /\ [][NextExploring]_vars
    /\ \A k \in 1..MaxUnits : WF_vars(ScrapeEnds(k))

(***************************************************************************)
(* Properties of the gateway and of the structured-output validator.       *)
(***************************************************************************)
Range(seq) == { seq[i] : i \in 1..Len(seq) }
StrictlyIncreasing(seq) == \A i \in 1..(Len(seq) - 1) : seq[i] < seq[i + 1]
\* The invocation in progress and the one that just finished.
Invocations == { f \in {frame, lastInv} : f.pc # "none" }
\* A text that parses as JSON, once an outer fence is removed, and matches
\* the schema.
WellFormed(raw) == raw.body = "valid" /\ raw.fence \in {"none", "json", "plain"}
AllInCooldown == \A p \in Chain : IsInCooldown(rate_limited_until, p, now)

\* C1: call_llm attempts providers in strictly increasing chain order from
\* the first position; every position it passed without attempting it was in
\* cooldown; a failed attempt is followed by the walk, never by a return; and
\* the invocation returns at the first attempt that yields non-empty content,
\* with exactly that content (the reasoning text when the message has no
\* content), the succeeding provider being the last one attempted.
C1_ChainOrderFirstSuccess ==
    \A f \in Invocations :
        /\ StrictlyIncreasing(f.attempts)
        /\ \A i \in 1..Len(f.attempts) :
              \A p \in 1..(f.attempts[i] - 1) :
                  p \in Range(f.attempts) \/ p \in f.skipped
        /\ f.pc = "awaiting" =>
              /\ f.attempts # << >>
              /\ f.idx = f.attempts[Len(f.attempts)]
        /\ f.pc = "returned" =>
              /\ f.attempts # << >>
              /\ f.idx = f.attempts[Len(f.attempts)]
              /\ f.content # EmptyContent
              /\ f.answer.kind = "message"
              /\ f.answer.content # EmptyContent => f.content = f.answer.content
              /\ f.answer.content = EmptyContent =>
                    f.content = f.answer.reasoning_content
              /\ sc.pc = "retry" => sc.raw = f.content

\* C1 witness: K-1 = 1 failure, then a success at the second position while
\* a later provider remains unattempted.
C1_Witness ==
    /\ lastInv.pc = "returned"
    /\ lastInv.attempts = << 1, 2 >>
    /\ lastInv.idx < ChainLen

\* C2: one call_llm invocation, its re-entry included, makes at most K
\* attempts; it raises LLMError only with at least one attempt made and every
\* chain position attempted or skipped for cooldown; and when it started on an
\* empty cooldown map, no concurrent call acted and every failure was
\* rate-limit-shaped, it raises after exactly the K attempts 1..K.
C2_AtMostKAttempts ==
    \A f \in Invocations :
        /\ Len(f.attempts) <= ChainLen
        /\ f.pc = "raised" =>
              /\ f.tried_any
              /\ f.attempts # << >>
              /\ \A p \in Chain : p \in Range(f.attempts) \/ p \in f.skipped
              /\ f.undisturbed => f.attempts = [i \in 1..ChainLen |-> i]

\* C2 witness: LLMError after K rate-limit failures on an empty map.
C2_Witness ==
    /\ lastInv.pc = "raised"
    /\ lastInv.undisturbed
    /\ Len(lastInv.attempts) = ChainLen
    /\ sc.result = "LLMError"

\* An invocation of call_llm begins in this step.
InvocationBegins ==
    \/ sc.pc = "idle" /\ sc'.pc = "first"
    \/ sc.pc = "first" /\ sc'.pc = "retry"

\* C3: an invocation that begins with every provider in cooldown attempts
\* nothing in its first pass, clears the whole map, re-enters once and awaits
\* the first provider; no invocation re-enters twice, and every answer to an
\* awaited attempt ends the invocation or moves it to a later provider, so an
\* invocation ends after at most K answers, whatever concurrent calls do to
\* the map.
C3_ReenterOnce ==
    [][ /\ (InvocationBegins /\ AllInCooldown) =>
              /\ frame'.reentries = 1
              /\ frame'.pc = "awaiting"
              /\ frame'.attempts = << 1 >>
              /\ rate_limited_until' = EmptyMap
        /\ (InvocationBegins /\ ~AllInCooldown) => frame'.reentries = 0
        /\ frame'.reentries <= 1
        /\ lastInv'.reentries <= 1
        /\ (frame.pc = "awaiting" /\ frame' # frame /\ ~InvocationBegins) =>
              \/ frame'.pc = "none" /\ lastInv'.pc \in {"returned", "raised"}
              \/ /\ frame'.pc = "awaiting"
                 /\ frame'.reentries = frame.reentries
                 /\ \/ frame'.idx > frame.idx
                    \/ frame'.attempts = frame.attempts
      ]_llmVars

\* C3 witness: a re-entered invocation awaits the first provider while a
\* concurrent call has acted on the map.
C3_Witness ==
    /\ frame.pc = "awaiting"
    /\ frame.reentries = 1
    /\ frame.idx = 1
    /\ DOMAIN rate_limited_until # {}

\* C4: call_llm_structured invokes call_llm once when its first output is
\* well-formed and twice when its first output is not; it never invokes it a
\* third time.
C4_OneOrTwoGatewayCalls ==
    /\ sc.calls <= 2
    /\ sc.pc = "first" => sc.calls = 1
    /\ sc.pc = "retry" => sc.calls = 2 /\ ~WellFormed(sc.raw)
    /\ (sc.pc \in {"returned", "raised"} /\ sc.raw # NoRaw) =>
          /\ WellFormed(sc.raw) => sc.calls = 1
          /\ ~WellFormed(sc.raw) => sc.calls = 2

\* C4 witness: an invalid first output, a valid retry output, two calls.
C4_Witness ==
    /\ sc.pc = "returned"
    /\ ~WellFormed(sc.raw)
    /\ WellFormed(sc.retry_raw)
    /\ sc.calls = 2

\* C5: after an invalid first output the retry output alone decides: a
\* well-formed retry output is returned as the instance, any other retry
\* output raises LLMValidationError carrying the retry's raw text.
C5_RetryDecides ==
    (sc.pc \in {"returned", "raised"} /\ sc.retry_raw # NoRaw) =>
        /\ WellFormed(sc.retry_raw) =>
              sc.result = "instance" /\ sc.instance = sc.retry_raw
        /\ ~WellFormed(sc.retry_raw) =>
              /\ sc.result = "LLMValidationError"
              /\ sc.raw_output = sc.retry_raw

\* C5 witness: both outputs invalid and different from each other.
C5_Witness ==
    /\ sc.result = "LLMValidationError"
    /\ sc.raw # sc.retry_raw
    /\ sc.raw # NoRaw

(***************************************************************************)
(* Properties of the orchestrator.                                         *)
(***************************************************************************)
\* The streams that are open: accepted and not yet ended.
Open(s) == streams[s].pc # "free"
OpenKeys == { streams[s].dedup_key : s \in { t \in Slots : Open(t) } }
EventTypes(st) == { st.events[k].type : k \in 1..Len(st.events) }
LastEvent(st) == st.events[Len(st.events)]

\* C6: no two open streams hold the same dedup key, and a request whose key
\* is in the in-flight set when it arrives is answered 409 and changes
\* neither the streams, nor the in-flight set, nor the store.
C6_OneStreamPerKey ==
    /\ [](\A s, t \in Slots :
            (Open(s) /\ Open(t) /\ streams[s].dedup_key = streams[t].dedup_key)
                => s = t)
    /\ [][ (response' # NoResponse /\ response'.dedup_key \in active_researches)
              => /\ response'.status = 409
                 /\ streams' = streams
                 /\ active_researches' = active_researches
                 /\ journeys' = journeys
                 /\ journey_steps' = journey_steps ]_vars

\* C6 witness: a selection is answered 409 while a stream of its journey is
\* in the middle of its phase.
C6_Witness ==
    /\ response.status = 409
    /\ response.kind = "selection"
    /\ \E s \in Slots :
          /\ streams[s].dedup_key = response.dedup_key
          /\ streams[s].pc \notin { "free", "created", "last" }

StepNumbers(journey_id) ==
    LET steps == StepsOf(journey_steps, journey_id)
    IN  [k \in 1..Len(steps) |-> steps[k].step_number]

\* C8: the step numbers persisted for a journey are pairwise distinct and
\* are exactly 1..n, n being the number of Steps persisted for it.
C8_StepNumbersContiguous ==
    \A j \in 1..Len(journeys) :
        LET numbers == StepNumbers(j)
        IN  /\ \A a, b \in 1..Len(numbers) :
                  a # b => numbers[a] # numbers[b]
            /\ Range(numbers) = 1..Len(numbers)

\* A stream whose phase, a phase of a journey, completed successfully: every
\* event of the phase was yielded, the last one being the one the phase
\* ends with.
PhaseCompleted(st) ==
    /\ st.pc = "last"
    /\ LastEvent(st).type \in { "waiting_for_selection", "research_complete" }

GapAnalysisFailed(st) ==
    \E k \in 1..Len(st.events) :
        st.events[k] = Event("block_error", "Gap Analysis")

C10_CompletedJourneyRejected ==
    /\ (response.status = 200 /\ response.kind = "selection") =>
          journeys[response.dedup_key.journey].status # "completed"
    /\ \A s \in Slots :
          (streams[s].kind = "selection"
              /\ streams[s].journey.status = "completed") =>
                /\ streams[s].saved = 0
                /\ streams[s].llm_calls = 0
                /\ "research_complete" \notin EventTypes(streams[s])

\* ---------------------------------------------------------------------
\* C11
\* ---------------------------------------------------------------------

\* The order in which a journey goes through its steps.
CanonicalStepTypes ==
    << "classify", "clarify", "find_competitors", "select_competitors",
       "explore", "select_problems", "define_problem" >>

IsPrefix(a, b) == Len(a) <= Len(b) /\ a = SubSeq(b, 1, Len(a))

\* The types of the persisted Steps of one journey, in the order in which
\* they were inserted.
StepTypesOf(journey_id) ==
    LET rows == StepsOf(journey_steps, journey_id)
    IN  [k \in 1..Len(rows) |-> rows[k].step_type]

\* C11: a selection is executed only when the journey awaits it, so the
\* types of the persisted Steps of every journey are always a prefix of
\* classify, clarify, find_competitors, select_competitors, explore,
\* select_problems, define_problem.
C11_StepTypesPrefix ==
    \A j \in 1..Len(journeys) : IsPrefix(StepTypesOf(j), CanonicalStepTypes)

\* ---------------------------------------------------------------------
\* C12
\* ---------------------------------------------------------------------

\* C12: a stream one of whose phase calls raised LLMError or
\* LLMValidationError, in any phase including explore, ends with a terminal
\* error event; it neither emits research_complete (the event that
\* accompanies the status completed) nor ends on any other event.
C12_LlmFailureIsTerminal ==
    \A s \in Slots :
        (Open(s) /\ streams[s].llm_raised) =>
            /\ "research_complete" \notin EventTypes(streams[s])
            /\ streams[s].pc = "last" => LastEvent(streams[s]).type = "error"

\* ---------------------------------------------------------------------
\* C13
\* ---------------------------------------------------------------------

\* The positions of the events of one type in a stream.
PositionsOf(st, type) ==
    { k \in 1..Len(st.events) : st.events[k].type = type }

\* The stream carries at most one error event, which is its last event, and
\* the generator has nothing left to yield after it.
ErrorIsLast(st) ==
    /\ Cardinality(PositionsOf(st, "error")) <= 1
    /\ PositionsOf(st, "error") \subseteq { Len(st.events) }
    /\ PositionsOf(st, "error") # {} => st.pc \in { "last", "ended" }

\* A stream whose generator ran to its end after something failed in its
\* pipeline carries the failure in band: a terminal error event when the
\* failure ended the pipeline, a block_error event when the pipeline went on.
FailureInBand(st) ==
    (st.pc \in { "last", "ended" } /\ st.ended_by \in { "none", "returned" }
        /\ st.failed) =>
            /\ PositionsOf(st, "error") \cup PositionsOf(st, "block_error") # {}
            /\ st.kind = "start" \/ st.step_type \in { "clarify", "select_problems" }
                  => LastEvent(st).type = "error"

\* C13: every stream has at most one error event and that event is its last
\* one (no step, block, waiting_for_selection or research_complete event
\* follows it), and a failure inside a pipeline never ends the stream without
\* an in-band event reporting it.
C13_ErrorEventIsTerminal ==
    /\ \A s \in Slots : Open(s) =>
            ErrorIsLast(streams[s]) /\ FailureInBand(streams[s])
    /\ ended # NoStream => ErrorIsLast(ended) /\ FailureInBand(ended)

\* A stream returned after its competitor call had raised.
C13_Witness ==
    /\ ended # NoStream
    /\ ended.ended_by = "returned"
    /\ ended.step_type = "clarify"
    /\ ended.llm_raised
    /\ ended.events = << Event("step_started", "finding_competitors"),
                         Event("error", "generating") >>

\* ---------------------------------------------------------------------
\* C14, C15
\* ---------------------------------------------------------------------

\* The events of the explore phase that satisfy a test.
EventsWhere(Test(_)) ==
    { n \in 1..Len(exploring.events) : Test(exploring.events[n]) }

ProfileReady(e) == e.type = "block_ready" /\ e.name = "product_profile"
UnitError(e) == e.type = "block_error" /\ e.name # "Market Overview"
OverviewReady(e) == e.type = "block_ready" /\ e.name = "market_overview"

\* The results are all reported.
ResultsReported == exploring.pc \in { "a554", "y568", "y579" }

\* C14: with 3 selected competitors of which exactly one has its scrape
\* raise ScraperError, everything else succeeding, the phase emits exactly 2
\* product-profile block_ready events and exactly 1 block_error event, and
\* then still the market-overview block_ready.
C14_ScrapeFailureIsBlockError ==
    ( /\ exploring.pc \in { "y568", "y579" }
      /\ Len(selected_competitors) = 3
      /\ Cardinality({ k \in Units : tasks[k].scrape_raised }) = 1
      /\ \A k \in Units : tasks[k].result = "profile"
                            \/ tasks[k].scrape_raised
      /\ \A k \in Units : ~tasks[k].llm_raised /\ tasks[k].result # "exception"
      /\ ~exploring.overview_raised )
    => /\ Cardinality(EventsWhere(ProfileReady)) = 2
       /\ Cardinality(EventsWhere(UnitError)) = 1
       /\ \E n \in EventsWhere(OverviewReady) :
             \A m \in EventsWhere(ProfileReady) \cup EventsWhere(UnitError) :
                m < n

\* C15: the failure of one competitor's profile build yields exactly one
\* block_error naming that competitor and aborts neither its siblings nor
\* the phase: every other unit gets its own event, product-profile
\* block_ready events and per-competitor block_error events number N
\* together, and the market-overview event and step_completed(exploring)
\* follow them.
C15_ProfileFailureIsolated ==
    /\ exploring.pc \notin { "none", "y579" } => ENABLED NextExploring
    /\ ResultsReported =>
          /\ Cardinality(EventsWhere(ProfileReady))
                + Cardinality(EventsWhere(UnitError))
                = Len(selected_competitors)
          /\ \A k \in Units :
                /\ tasks[k].llm_raised =>
                      /\ exploring.events[k + 1]
                            = BlockEvent("block_error", "competitor", k)
                      /\ \A n \in 1..Len(exploring.events) :
                            exploring.events[n].comp = k => n = k + 1
                /\ tasks[k].result = "profile" =>
                      exploring.events[k + 1]
                         = BlockEvent("block_ready", "product_profile", k)
    /\ exploring.pc = "y579" =>
          LET n == Len(exploring.events)
          IN  /\ n = Len(selected_competitors) + 3
              /\ exploring.events[n]
                    = BlockEvent("step_completed", "exploring", 0)
              /\ exploring.events[n - 1].name
                    \in { "market_overview", "Market Overview" }

\* The phase completed with 3 competitors of which the second had its
\* profile call raise.
C15_Witness ==
    /\ exploring.pc = "y579"
    /\ Len(selected_competitors) = 3
    /\ { k \in Units : tasks[k].llm_raised } = { 2 }
    /\ \A k \in Units \ { 2 } : tasks[k].result = "profile"
    /\ Cardinality(EventsWhere(ProfileReady)) = 2
    /\ Cardinality(EventsWhere(UnitError)) = 1

\* ---------------------------------------------------------------------
\* C16
\* ---------------------------------------------------------------------

\* The events of a start stream whose prompt was classified as build or
\* explore and whose journey was created.
ClassifyEvents(result) ==
    << Event("step_started", "classifying"),
       Event("step_completed", "classifying"),
       Event("journey_started", result.intent_type) >>
    \o (IF result.questions
        THEN << Event("clarification_needed", "") >> ELSE << >>)
    \o << Event("waiting_for_selection", "clarification") >>

ClassifiedBuildOrExplore(st) ==
    /\ st.kind = "start"
    /\ st.classify_result.intent_type \in { "build", "explore" }
    /\ ~st.failed

\* The events come in the order of ClassifyEvents, and all of them have
\* come when the generator is through.
ClassifyOrder(st) ==
    ClassifiedBuildOrExplore(st) =>
        /\ IsPrefix(st.events, ClassifyEvents(st.classify_result))
        /\ (st.pc = "last" \/ st.ended_by = "returned")
              => st.events = ClassifyEvents(st.classify_result)

\* C16: a start request classified as build or explore emits
\* step_started(classifying), step_completed(classifying), journey_started,
\* clarification_needed when there are questions, and
\* waiting_for_selection(clarification) as its last event, in this order.
C16_ClassifyEventOrder ==
    /\ \A s \in Slots : Open(s) => ClassifyOrder(streams[s])
    /\ ended # NoStream => ClassifyOrder(ended)

\* A start stream classified as build, with questions, ran to its end.
C16_Witness ==
    /\ ended # NoStream
    /\ ended.ended_by = "returned"
    /\ ended.classify_result = [intent_type |-> "build", questions |-> TRUE]
    /\ Len(ended.events) = 5
    /\ ended.events[3].type = "journey_started"
    /\ ended.events[4].type = "clarification_needed"
    /\ LastEvent(ended) = Event("waiting_for_selection", "clarification")

\* ---------------------------------------------------------------------
\* C17
\* ---------------------------------------------------------------------

\* The events of a clarify selection whose competitor discovery succeeds.
CompetitorEvents ==
    << Event("step_started", "finding_competitors"),
       Event("block_ready", "competitor_list"),
       Event("step_completed", "finding_competitors"),
       Event("waiting_for_selection", "competitors") >>

CompetitorOrder(st) ==
    (st.kind = "selection" /\ st.step_type = "clarify" /\ ~st.failed) =>
        /\ IsPrefix(st.events, CompetitorEvents)
        /\ (st.pc = "last" \/ st.ended_by = "returned")
              => st.events = CompetitorEvents

\* C17: a clarify selection whose competitor discovery succeeds emits
\* step_started(finding_competitors), exactly one block_ready (the
\* competitor list), step_completed(finding_competitors) and
\* waiting_for_selection(competitors) as its last event, in this order.
C17_CompetitorEventOrder ==
    /\ \A s \in Slots : Open(s) => CompetitorOrder(streams[s])
    /\ ended # NoStream => CompetitorOrder(ended)

\* A clarify selection ran to its end after its call returned.
C17_Witness ==
    /\ ended # NoStream
    /\ ended.ended_by = "returned"
    /\ ended.step_type = "clarify"
    /\ ~ended.failed
    /\ Cardinality(PositionsOf(ended, "block_ready")) = 1
    /\ LastEvent(ended) = Event("waiting_for_selection", "competitors")

\* ---------------------------------------------------------------------
\* C18
\* ---------------------------------------------------------------------

\* The events of a start stream whose prompt was classified as small talk
\* or off topic.
QuickEvents ==
    << Event("step_started", "classifying"),
       Event("step_completed", "classifying"),
       Event("quick_response", "") >>

ClassifiedQuick(st) ==
    /\ st.kind = "start"
    /\ st.classify_result.intent_type \in { "small_talk", "off_topic" }

QuickOnly(st) ==
    ClassifiedQuick(st) =>
        /\ IsPrefix(st.events, QuickEvents)
        /\ (st.pc = "last" \/ st.ended_by = "returned")
              => st.events = QuickEvents
        /\ st.journey_id = NoJourneyId
        /\ st.saved = 0

\* C18: when classification yields small_talk or off_topic the stream is
\* step_started(classifying), step_completed(classifying), quick_response
\* and nothing else (no journey_started, clarification_needed or
\* waiting_for_selection), and the stream creates no journey and persists no
\* Step: none of its steps changes the journeys or the journey_steps table.
C18_QuickResponseOnly ==
    /\ [](/\ \A s \in Slots : Open(s) => QuickOnly(streams[s])
          /\ ended # NoStream => QuickOnly(ended))
    /\ [][\A s \in Slots :
            (ClassifiedQuick(streams[s]) /\ streams'[s] # streams[s])
                => /\ journeys' = journeys
                   /\ journey_steps' = journey_steps]_vars

\* A start stream classified as off topic ran to its end.
C18_Witness ==
    /\ ended # NoStream
    /\ ended.ended_by = "returned"
    /\ ended.classify_result.intent_type = "off_topic"
    /\ ended.events = QuickEvents
    /\ journeys = << >>

\* ---------------------------------------------------------------------
\* C19
\* ---------------------------------------------------------------------

\* A select_competitors stream past step_completed(exploring).
Explored(st) ==
    /\ st.kind = "selection"
    /\ st.step_type = "select_competitors"
    /\ Event("step_completed", "exploring") \in Range(st.events)

Through(st) == st.pc = "last" \/ st.ended_by = "returned"

\* What follows step_completed(exploring): for a build journey the gap
\* analysis and then waiting_for_selection(problems), never
\* research_complete; for an explore journey nothing but research_complete,
\* with the explore Step persisted and the status completed.
AfterExploring(st) ==
    Explored(st) =>
        IF st.journey.intent_type = "build"
        THEN /\ "research_complete" \notin EventTypes(st)
             /\ Through(st) =>
                   /\ LastEvent(st) = Event("waiting_for_selection", "problems")
                   /\ st.events[Len(st.events) - 1].name
                         \in { "gap_analyzing", "Gap Analysis" }
                   /\ Event("step_started", "gap_analyzing") \in Range(st.events)
        ELSE /\ Event("step_started", "gap_analyzing") \notin Range(st.events)
             /\ "waiting_for_selection" \notin EventTypes(st)
             /\ Through(st) =>
                   /\ LastEvent(st) = Event("research_complete", "")
                   /\ st.events[Len(st.events) - 1]
                         = Event("step_completed", "exploring")
                   /\ st.saved = 2
                   /\ \E k \in 1..Len(journey_steps) :
                         journey_steps[k]
                            = StepRow(st.journey_id,
                                      journey_steps[k].step_number, "explore")
                   /\ journeys[st.journey_id].status = "completed"

PhaseOfBlock(e) ==
    CASE e.name = "competitor_list" -> "finding_competitors"
      [] e.name \in { "product_profile", "competitor", "market_overview",
                      "Market Overview" } -> "exploring"
      [] e.name \in { "gap_analysis", "Gap Analysis" } -> "gap_analyzing"
      [] e.name = "problem_statement" -> "defining_problem"
      [] OTHER -> "none"

IsBlock(e) == e.type \in { "block_ready", "block_error" }

\* Every block of a phase lies after the step_started of its phase and
\* before the step_completed of its phase, if there is one.
BlocksWithinPhase(st) ==
    \A n \in 1..Len(st.events) :
        IsBlock(st.events[n]) =>
            LET p == PhaseOfBlock(st.events[n])
            IN  /\ p # "none"
                /\ \E m \in 1..(n - 1) :
                      st.events[m] = Event("step_started", p)
                /\ \A m \in 1..Len(st.events) :
                      st.events[m] = Event("step_completed", p) => n < m

\* C20: within every stream and for every phase p, step_started(p) precedes
\* every block_ready and block_error of p, and step_completed(p), when it is
\* emitted, comes after all of them; this holds for exploring and for
\* gap_analyzing separately.
C20_BlocksWithinPhase ==
    /\ \A s \in Slots : Open(s) => BlocksWithinPhase(streams[s])
    /\ ended # NoStream => BlocksWithinPhase(ended)

\* A build journey's stream ran to its end with blocks of both phases and
\* both step_completed events.
C20_Witness ==
    /\ ended # NoStream
    /\ ended.ended_by = "returned"
    /\ Event("block_ready", "product_profile") \in Range(ended.events)
    /\ Event("block_error", "competitor") \in Range(ended.events)
    /\ Event("step_completed", "exploring") \in Range(ended.events)
    /\ Event("block_ready", "gap_analysis") \in Range(ended.events)
    /\ Event("step_completed", "gap_analyzing") \in Range(ended.events)

\* ---------------------------------------------------------------------
\* C21
\* ---------------------------------------------------------------------

\* The invocation the caller's step walked with: the one now awaiting a
\* provider, else the one that just finished.
Walked == IF frame.pc = "awaiting" THEN frame ELSE lastInv

\* The step goes on with the invocation that was awaiting before it.
SameInvocation == frame.pc = "awaiting" /\ sc'.calls = sc.calls

\* The step begins an attempt on provider p.
AttemptBegins(p) ==
    /\ frame'.pc = "awaiting"
    /\ frame'.idx = p
    /\ ~SameInvocation \/ frame'.attempts # frame.attempts

\* The providers the step skipped as being in cooldown.
NewlySkipped == Walked'.skipped \ (IF SameInvocation THEN frame.skipped ELSE {})

\* The cooldown window of the latest mark of p is still running.
WindowRunning(marks, p, t) ==
    marks[p] # Never /\ t < marks[p] + RATE_LIMIT_COOLDOWN_SECONDS

\* C21: a provider whose failure was classified as rate-limit-shaped at
\* time t is attempted by no call before t + 600 seconds unless the cooldown
\* map was cleared in between; from t + 600 seconds on a call that comes to
\* it attempts it instead of skipping it, and its cooldown record is gone
\* once it is attempted.
C21_CooldownWindow ==
    [][ /\ \A p \in Chain :
              AttemptBegins(p) =>
                  /\ ~WindowRunning(marked_at', p, now)
                  /\ p \notin DOMAIN rate_limited_until'
        /\ \A p \in NewlySkipped : WindowRunning(marked_at, p, now)
      ]_vars

\* The first provider was marked, its window has run out and it is being
\* attempted again, its record removed, while the window of the second
\* provider, marked later, is still running.
C21_Witness ==
    /\ frame.pc = "awaiting"
    /\ frame.idx = 1
    /\ marked_at[1] # Never
    /\ now >= marked_at[1] + RATE_LIMIT_COOLDOWN_SECONDS
    /\ 1 \notin DOMAIN rate_limited_until
    /\ WindowRunning(marked_at, 2, now)

\* ---------------------------------------------------------------------
\* C22
\* ---------------------------------------------------------------------

\* The message carries rate-limit, quota or timeout vocabulary.
RateLimitShaped(error) ==
    error \cap { "rate_limit", "ratelimit", "429", "quota",
                 "resource_exhausted", "timeout", "timed out" } # {}

\* The step is the failure of the attempt the invocation was awaiting.
AttemptFails ==
    /\ SameInvocation
    /\ Walked'.pc \in { "awaiting", "raised" }
    /\ Walked'.pc = "awaiting" => Walked'.attempts # frame.attempts

\* The cooldown record of provider p in a map (Never: none).
RecordOf(map, p) == IF p \in DOMAIN map THEN map[p] ELSE Never

\* The providers after p whose cooldown window is not running.
OpenAfter(p) ==
    { q \in Chain : q > p /\ ~(RecordOf(rate_limited_until, q) > now) }

\* C22: when a provider attempt fails, a cooldown record is created for
\* that provider if and only if the error text carries rate-limit, quota or
\* timeout vocabulary; a hard failure, an empty completion included, leaves
\* the provider's record as it was; either way the same call goes on to
\* attempt the next provider that is not in cooldown, and raises only when
\* there is none.
C22_FailureClassified ==
    [][ AttemptFails =>
          LET p == frame.idx
              e == Walked'.last_error
          IN  /\ e # NoError
              /\ IF RateLimitShaped(e)
                 THEN RecordOf(rate_limited_until', p)
                         = now + RATE_LIMIT_COOLDOWN_SECONDS
                 ELSE RecordOf(rate_limited_until', p)
                         = RecordOf(rate_limited_until, p)
              /\ IF OpenAfter(p) = {}
                 THEN Walked'.pc = "raised"
                 ELSE /\ Walked'.pc = "awaiting"
                      /\ Walked'.idx \in OpenAfter(p)
                      /\ \A q \in OpenAfter(p) : Walked'.idx <= q
      ]_vars

\* The attempt on the second provider ended with an empty completion: it
\* has no record, the third provider is being attempted, and the first
\* provider, attempted before, has a record.
C22_Witness ==
    /\ frame.pc = "awaiting"
    /\ frame.attempts = << 1, 2, 3 >>
    /\ frame.last_error = EmptyContentError
    /\ 1 \in DOMAIN rate_limited_until
    /\ 2 \notin DOMAIN rate_limited_until

\* ---------------------------------------------------------------------
\* C23
\* ---------------------------------------------------------------------

\* C23: call_llm persists the succeeding provider as the new preference
\* exactly when that provider is not the first chain entry and some provider
\* attempted earlier in the same call failed with a hard error; a success
\* reached through rate-limit failures and cooldown skips only persists
\* nothing.
C23_PersistAfterHardFailure ==
    lastInv.pc = "returned" =>
        ( lastInv.persisted <=>
            (lastInv.idx # 1 /\ lastInv.hard_failed) )

\* ---------------------------------------------------------------------
\* C24
\* ---------------------------------------------------------------------

\* The step begins a call_llm invocation.
NewInvocation == sc'.calls # sc.calls /\ sc'.calls > 0

\* The chain entries whose cooldown window is not running.
OpenProviders == { q \in Chain : ~(RecordOf(rate_limited_until, q) > now) }

RedirectOnce(st) ==
    LET redirects == PositionsOf(st, "intent_redirect")
        improve == st.classify_result.intent_type = "improve"
    IN  /\ ~improve => redirects = {}
        /\ Cardinality(redirects) <= 1
        /\ \A k \in redirects :
              /\ st.events[k] = Event("intent_redirect", "explore")
              /\ k > 1
              /\ st.events[k - 1] = Event("journey_started", "explore")
              /\ \A c \in PositionsOf(st, "clarification_needed") : k < c
        /\ improve =>
              \A k \in PositionsOf(st, "journey_started") :
                  k < Len(st.events) => k + 1 \in redirects

\* The classification of the stream that created journey j was improve.
Redirected(j) ==
    \E s \in Slots :
        /\ streams[s].kind = "start"
        /\ streams[s].classify_result.intent_type = "improve"
        /\ streams[s].journey_id = j

\* The explore phase of journey j never starts a gap analysis nor waits
\* for a selection of problems, and once through it ended in
\* research_complete.
HandledAsExplore(j, st) ==
    ( /\ st.kind = "selection"
      /\ st.step_type = "select_competitors"
      /\ st.journey_id = j )
        => /\ \A k \in 1..Len(st.events) :
                 st.events[k].name \notin { "gap_analyzing", "gap_analysis",
                                           "Gap Analysis", "problems" }
           /\ st.pc \notin { "y641", "a646", "y670", "y673", "y683" }
           /\ Through(st) => LastEvent(st) = Event("research_complete", "")

\* C25: when classification yields improve, exactly one intent_redirect
\* event (improve to explore) is emitted in the stream, after
\* journey_started and before any clarification_needed, and every later
\* phase handles the journey as explore: its explore phase ends in
\* research_complete without running the gap analysis.
C25_ImproveRedirected ==
    /\ [](/\ \A s \in Slots : Open(s) => RedirectOnce(streams[s])
          /\ ended # NoStream => RedirectOnce(ended))
    /\ \A j \in JourneyIds :
          [](Redirected(j) =>
                [](/\ \A s \in Slots : HandledAsExplore(j, streams[s])
                   /\ HandledAsExplore(j, ended)))

\* The classify stream of an improve prompt has announced the redirect once
\* and is through; the explore phase of the journey it created is through
\* as well, with research_complete.
C25_Witness ==
    \E s, t \in Slots :
        /\ streams[s].kind = "start"
        /\ streams[s].classify_result.intent_type = "improve"
        /\ streams[s].pc = "last"
        /\ Cardinality(PositionsOf(streams[s], "intent_redirect")) = 1
        /\ "clarification_needed" \in EventTypes(streams[s])
        /\ Explored(streams[t])
        /\ streams[t].journey_id = streams[s].journey_id
        /\ streams[t].pc = "last"
        /\ LastEvent(streams[t]) = Event("research_complete", "")

\* ---------------------------------------------------------------------
\* C26
\* ---------------------------------------------------------------------

\* C26: when classification yields improve, the journey is recorded with
\* the original intent: the intent stored by create_journey is improve, and
\* only the handling of later phases is redirected to explore.
C26_OriginalIntentStored ==
    \A s \in Slots :
        ( /\ streams[s].kind = "start"
          /\ streams[s].classify_result.intent_type = "improve"
          /\ streams[s].journey_id \in 1..Len(journeys) )
            => journeys[streams[s].journey_id].intent_type = "improve"

\* ---------------------------------------------------------------------
\* C27
\* ---------------------------------------------------------------------

\* The Steps a phase writes when nothing fails: the selection Step and the
\* result Step that follows it.
StepsOfPhase == 2

\* C27: if the client disconnects in the middle of a phase, the work the
\* phase already started runs to completion, including its Step writes: a
\* stream the client closed, in which nothing failed, has left either all
\* the Steps of its phase or none, never the selection Step alone.
C27_DisconnectCompletes ==
    ( /\ ended # NoStream
      /\ ended.ended_by = "closed"
      /\ ended.kind = "selection"
      /\ ended.step_type # "bogus"
      /\ ~ended.failed )
        => ended.saved \in { 0, StepsOfPhase }

\* ---------------------------------------------------------------------
\* C28
\* ---------------------------------------------------------------------

\* The texts written for the user in the explore phase.
UserSafeTexts ==
    { "We couldn't access this product's website. Other results are still available.",
      "We couldn't generate the market overview. Other results are still available." }

\* C28: no event carries internal exception text: the error field of every
\* block_error event is one of the fixed texts written for the user.
C28_NoInternalText ==
    \A k \in 1..Len(exploring.events) :
        exploring.events[k].type = "block_error"
            => ErrorField(exploring.events[k]) \in UserSafeTexts

\* ---------------------------------------------------------------------
\* C29
\* ---------------------------------------------------------------------

\* C29: every error_code delivered to the client in a block_error event has
\* been written to the server log, with the same value, by the time the
\* event is emitted.
C29_DeliveredCodeLogged ==
    \A k \in 1..Len(exploring.error_codes) :
        exploring.error_codes[k] # NoCode
            => exploring.error_codes[k] \in server_log

\* ---------------------------------------------------------------------
\* C30
\* ---------------------------------------------------------------------

\* Every step_completed(p) of the stream has a step_started(p) before it,
\* and once the stream is through every step_started(p) has a
\* step_completed(p) after it.
StepsWrapped(st) ==
    LET started(p) == { k \in 1..Len(st.events) :
                          st.events[k] = Event("step_started", p) }
        completed(p) == { k \in 1..Len(st.events) :
                            st.events[k] = Event("step_completed", p) }
        phases == { st.events[k].name : k \in PositionsOf(st, "step_started")
                        \cup PositionsOf(st, "step_completed") }
    IN  \A p \in phases :
            /\ \A c \in completed(p) : \E b \in started(p) : b < c
            /\ Through(st) =>
                  \A b \in started(p) : \E c \in completed(p) : b < c

\* C30: in any stream that contains no error event, every step_started(p)
\* is followed later in the same stream by step_completed(p), and
\* step_completed(p) is never emitted without an earlier step_started(p).
C30_StepsWrapped ==
    /\ \A s \in Slots :
          ( Open(s) /\ "error" \notin EventTypes(streams[s]) )
              => StepsWrapped(streams[s])
    /\ ( ended # NoStream /\ "error" \notin EventTypes(ended) )
          => StepsWrapped(ended)

\* ---------------------------------------------------------------------
\* C31
\* ---------------------------------------------------------------------

\* The stream of a selection with an unknown step type: nothing persisted,
\* no gateway call, no event but the error event, which is not recoverable
\* and which is there as soon as the generator has run.
RefusedStepType(st) ==
    ( st.kind = "selection" /\ st.step_type = "bogus" )
        => /\ st.saved = 0
           /\ st.llm_calls = 0
           /\ st.pc \in { "created", "last", "ended" }
           /\ IF st.pc = "created"
              THEN st.events = << >>
              ELSE /\ st.events = << Event("error", "invalid_step_type") >>
                   /\ ~Recoverable(st.events[1])

\* C31: a selection whose step_type is none of clarify, select_competitors
\* and select_problems, submitted on an existing journey, opens a stream
\* that contains exactly one event, an error event with recoverable false;
\* it persists no Step (the Steps of its journey are those of the snapshot
\* unless another stream added some), makes no gateway call, and its dedup
\* key is released when the stream ends.
C31_InvalidStepType ==
    /\ \A s \in Slots : Open(s) => RefusedStepType(streams[s])
    /\ ended # NoStream =>
          /\ RefusedStepType(ended)
          /\ ( ended.kind = "selection" /\ ended.step_type = "bogus" )
                => ended.dedup_key \notin active_researches

\* A stream of an unknown step type returned after its one event.
C31_Witness ==
    /\ ended # NoStream
    /\ ended.kind = "selection"
    /\ ended.step_type = "bogus"
    /\ ended.ended_by = "returned"
    /\ ended.journey.found
    /\ Len(ended.events) = 1
    /\ ended.dedup_key \notin active_researches

\* ---------------------------------------------------------------------
\* C32
\* ---------------------------------------------------------------------

\* The step answered a request without opening a stream.
Rejected == response' # NoResponse /\ response'.status # 200

\* The stream the step opened, if it opened one.
Opened == { s \in Slots : streams[s].pc = "free" /\ streams'[s].pc = "created" }

\* C32: a rejected request leaves the in-flight set unchanged: a selection
\* for an unknown journey gets 404 (only selections whose journey exists
\* are accepted) and a request whose key is in flight gets 409 (only
\* requests whose key is not in flight are accepted), and in both cases no
\* key is inserted, the key held by the in-flight request is not removed,
\* no stream is opened and no Step is persisted.
C32_RejectedChangesNothing ==
    [][ /\ Rejected =>
              /\ response'.status \in { 404, 409 }
              /\ response'.status = 404 =>
                    /\ response'.kind = "selection"
                    /\ response'.dedup_key = NoKey
              /\ response'.status = 409 =>
                    response'.dedup_key \in active_researches
              /\ active_researches' = active_researches
              /\ streams' = streams
              /\ journeys' = journeys
              /\ journey_steps' = journey_steps
        /\ \A s \in Opened :
              /\ response'.status = 200
              /\ streams'[s].dedup_key \notin active_researches
              /\ streams'[s].kind = "selection" =>
                    /\ streams'[s].journey_id \in 1..Len(journeys)
                    /\ streams'[s].journey.found ]_vars

\* A selection for a journey that does not exist was answered 404 while
\* another journey's stream holds its key, which is still in the set.
C32_Witness ==
    /\ response.status = 404
    /\ \E s \in Slots :
          /\ Open(s)
          /\ streams[s].kind = "selection"
          /\ streams[s].saved > 0
          /\ streams[s].dedup_key \in active_researches

\* ---------------------------------------------------------------------
\* C33
\* ---------------------------------------------------------------------

\* The providers in the order search may call them.
SearchOrder ==
    IF serper_api_key THEN << "tavily", "serper", "ddg" >>
    ELSE << "tavily", "ddg" >>

\* One call of search(): the providers it called are the first ones of the
\* order, each but the last having raised SearchError; what it returns is
\* what the last provider it called returned, or the empty list when that
\* one was DuckDuckGo and raised SearchError too; and it raises only what
\* Tavily or Serper raised that is no SearchError.
SearchFallsBack(sr, c) ==
    LET n == Len(sr.called)
        before == IF n > 1 THEN sr.called[n - 1] ELSE ""
        exhausted == sr.outcome = "returned" /\ sr.last_error = sr.called[n]
    IN  sr.pc # "idle" =>
            /\ n \in 1..Len(SearchOrder)
            /\ sr.called = SubSeq(SearchOrder, 1, n)
            /\ sr.last_error \in { before, sr.called[n] }
            /\ sr.pc \in { "tavily", "serper", "ddg" } =>
                  /\ sr.pc = sr.called[n]
                  /\ sr.last_error = before
                  /\ sr.outcome = "none"
            /\ sr.pc = "done" => sr.outcome \in { "returned", "raised" }
            /\ sr.outcome = "raised" =>
                  /\ sr.called[n] \in { "tavily", "serper" }
                  /\ sr.last_error = before
            /\ sr.outcome = "returned" =>
                  /\ sr.results \in ProviderResults(sr.called[n])
                  /\ exhausted =>
                        /\ sr.called = SearchOrder
                        /\ sr.results = << >>
                        /\ Code(67, c) \in server_log
            /\ ~exhausted => Code(67, c) \notin server_log

\* C33: search tries Tavily, then Serper only when a Serper API key is
\* configured, then DuckDuckGo; it returns the results of the first
\* provider that does not raise SearchError without calling any later
\* provider, and it returns an empty list instead of raising when all of
\* them fail.
C33_SearchFallsBack ==
    \A c \in DOMAIN searching : SearchFallsBack(searching[c], c)

\* With a Serper key configured, one call went through the three providers
\* and returned the empty list, and another returned what Serper found.
C33_Witness ==
    /\ serper_api_key
    /\ \E c, d \in DOMAIN searching :
          /\ searching[c].called = << "tavily", "serper", "ddg" >>
          /\ searching[c].last_error = "ddg"
          /\ searching[c].outcome = "returned"
          /\ searching[c].results = << >>
          /\ searching[d].called = << "tavily", "serper" >>
          /\ searching[d].outcome = "returned"
          /\ searching[d].results = << "serper" >>

\* ---------------------------------------------------------------------
\* C34
\* ---------------------------------------------------------------------

\* The stream ended its phase with an error event.
EndedInError(st) ==
    /\ st.events # << >>
    /\ LastEvent(st).type = "error"

\* The Steps of journey j that record a selection of the given type.
SelectionSteps(j, type) ==
    { k \in 1..Len(journey_steps) :
        journey_steps[k].journey_id = j /\ journey_steps[k].step_type = type }

\* C34: a phase that ends with a terminal error event persists no Step, so
\* after a failed competitor-discovery or problem-definition phase the
\* journey's Step list is the same as before the request, and resubmitting
\* the same selection does not leave two Steps of the same selection type.
C34_FailedPhasePersistsNothing ==
    /\ \A s \in Slots :
          ( Open(s) /\ EndedInError(streams[s]) ) => streams[s].saved = 0
    /\ ( ended # NoStream /\ EndedInError(ended) ) => ended.saved = 0
    /\ \A j \in 1..Len(journeys) :
          \A type \in { "clarify", "select_problems" } :
              Cardinality(SelectionSteps(j, type)) <= 1

\* ---------------------------------------------------------------------
\* C35
\* ---------------------------------------------------------------------

\* The Steps of the stream's journey in the store are those of the snapshot
\* it was given and those it saved itself.
SnapshotFresh(st) ==
    st.kind = "selection" =>
        Len(StepsOf(journey_steps, st.journey_id))
            = Len(st.journey.steps) + st.saved

\* C35: the journey snapshot a selection pipeline works on is never stale:
\* no Step of that journey is persisted by another stream (the start stream
\* that created the journey or an earlier selection stream) between the
\* moment submit_selection reads the snapshot and the moment the pipeline
\* finishes.
C35_SnapshotNeverStale ==
    /\ \A s \in Slots : Open(s) => SnapshotFresh(streams[s])
    /\ ended # NoStream => SnapshotFresh(ended)

\* ---------------------------------------------------------------------
\* C36
\* ---------------------------------------------------------------------

\* The type of the Step that holds the options of a selection: the explore
\* Step of a build journey is the one written with the gap analysis.
OptionsStep(selection_type) ==
    CASE selection_type = "clarification" -> "classify"
      [] selection_type = "competitors"   -> "find_competitors"
      [] selection_type = "problems"      -> "explore"

\* Every waiting_for_selection of the stream has the Step of its options in
\* the store.
OptionsPersisted(st) ==
    \A k \in PositionsOf(st, "waiting_for_selection") :
        \E r \in 1..Len(journey_steps) :
            /\ journey_steps[r].journey_id = st.journey_id
            /\ journey_steps[r].step_type = OptionsStep(st.events[k].name)

\* C36: whenever waiting_for_selection(T) is emitted, the Step that holds
\* the options the user must choose from is already persisted for that
\* journey: the classify Step for clarification, the find_competitors Step
\* for competitors, and an explore Step with gap_analysis output for
\* problems.
C36_OptionsPersisted ==
    /\ \A s \in Slots : Open(s) => OptionsPersisted(streams[s])
    /\ ended # NoStream => OptionsPersisted(ended)

\* ---------------------------------------------------------------------
\* C37
\* ---------------------------------------------------------------------

\* The units that ended with a profile, in the order of the selection.
Succeeded == SelectSeq([k \in Units |-> k],
                       LAMBDA k : tasks[k].result = "profile")

\* C37: in the explore phase the market-overview gateway call starts only
\* after all N competitor units have finished, each with a profile or an
\* error (an error result or an exception gather hands back), and its input
\* is exactly the profiles of the units that succeeded; until then no unit
\* result has been reported either.
C37_OverviewAfterAllUnits ==
    /\ exploring.pc \in { "a554", "y568", "y579" } =>
          /\ \A k \in Units :
                /\ tasks[k].pc = "done"
                /\ tasks[k].result \in { "profile", "error", "exception" }
          /\ exploring.overview_input = Succeeded
    /\ exploring.pc \in { "none", "y440", "a521" } =>
          exploring.overview_input = << >>
    /\ exploring.pc = "y550" => \A k \in Units : tasks[k].pc = "done"

\* The overview call is awaited for three units of which one ended with an
\* error, one was scraped and profiled and one came from the cache.
C37_Witness ==
    /\ exploring.pc = "a554"
    /\ Len(selected_competitors) = 3
    /\ Len(exploring.overview_input) = 2
    /\ \E k \in Units : tasks[k].llm_raised
    /\ \E k \in Units : tasks[k].scraped /\ tasks[k].result = "profile"
    /\ \E k \in Units : selected_competitors[k].cached

\* ---------------------------------------------------------------------
\* C38
\* ---------------------------------------------------------------------

\* The Step a terminal phase leaves and the events that carry its result.
TerminalStep(st) ==
    IF st.step_type = "select_problems" THEN "define_problem" ELSE "explore"

ResultProduced(st) ==
    IF st.step_type = "select_problems"
    THEN /\ Event("block_ready", "problem_statement") \in Range(st.events)
         /\ Event("step_completed", "defining_problem") \in Range(st.events)
    ELSE /\ st.step_type = "select_competitors"
         /\ Event("step_completed", "exploring") \in Range(st.events)

\* research_complete is the last event of the stream that carries it, and
\* by then the terminal Step is in the store and the status is completed.
CompleteIsLast(st) ==
    LET at == PositionsOf(st, "research_complete")
    IN  at # {} =>
            /\ at = { Len(st.events) }
            /\ st.kind = "selection"
            /\ ResultProduced(st)
            /\ journeys[st.journey_id].status = "completed"
            /\ \E r \in 1..Len(journey_steps) :
                  journey_steps[r]
                     = StepRow(st.journey_id, journey_steps[r].step_number,
                               TerminalStep(st))

GatewayRaises == frame.pc = "awaiting" /\ lastInv'.pc = "raised"

\* C39: if call_llm raises LLMError on the first call or on the retry call
\* of call_llm_structured, call_llm_structured raises that LLMError, never
\* LLMValidationError, and makes no further gateway call: it raises in the
\* same step with the number of its calls unchanged, no invocation is left
\* running, and none begins before its caller has taken the error.
C39_GatewayErrorLetThrough ==
    /\ [][GatewayRaises =>
            /\ sc.pc \in { "first", "retry" }
            /\ sc'.pc = "raised"
            /\ sc'.result = "LLMError"
            /\ sc'.calls = sc.calls
            /\ frame' = NoFrame]_vars
    /\ [][sc.pc = "raised" =>
            /\ frame' = NoFrame
            /\ sc'.pc \in { "raised", "idle" }]_vars
    /\ [](sc.result = "LLMValidationError" => lastInv.pc = "returned")
    /\ [](sc.result = "LLMError" => lastInv.pc = "raised")

\* The retry call raised LLMError after an invalid first output: two calls,
\* LLMError raised.
C39_Witness ==
    /\ sc.pc = "raised"
    /\ sc.result = "LLMError"
    /\ sc.calls = 2
    /\ sc.raw # NoRaw
    /\ lastInv.pc = "raised"

\* ---------------------------------------------------------------------
\* C40
\* ---------------------------------------------------------------------

\* The tasks inside scrape with a permit, and those waiting for one.
Scraping == { k \in Units : tasks[k].pc \in { "jina", "bs4" } }
WaitingForPermit == { k \in Units : tasks[k].pc = "acquire" }

\* C40: at most 2 scrape operations are in progress at any time across all
\* concurrent competitor units; a permit is released whether the scrape
\* returns content or raises ScraperError (the permits out are those of the
\* scrapes in progress), so every scrape waiting for a permit eventually
\* gets one; and scrape raises ScraperError only after both the Jina
\* attempt and the BeautifulSoup fallback failed.
C40_TwoScrapesAtMost ==
    /\ [](/\ Cardinality(Scraping) <= ScrapePermits
          /\ exploring.pc # "none" =>
                /\ scrape_semaphore.value
                      = ScrapePermits - Cardinality(Scraping)
                /\ Range(scrape_semaphore.waiters) = WaitingForPermit
                /\ WaitingForPermit # {} => scrape_semaphore.value = 0)
    /\ [][\A k \in Units :
            /\ ( tasks'[k].pc = "bs4" /\ tasks[k].pc # "bs4" )
                  => tasks[k].pc = "jina"
            /\ ( tasks'[k].scrape_raised /\ ~tasks[k].scrape_raised )
                  => /\ tasks[k].pc = "bs4"
                     /\ ~tasks'[k].scraped
                     /\ k \notin Scraping' ]_vars
    /\ \A k \in 1..MaxUnits :
          ( k \in WaitingForPermit ) ~> ( k \in Scraping )

\* Two scrapes are in progress, one of them in its fallback, and the third
\* unit waits for a permit.
C40_Witness ==
    /\ Cardinality(Scraping) = ScrapePermits
    /\ \E k \in Scraping : tasks[k].pc = "bs4"
    /\ scrape_semaphore.waiters = << 3 >>
    /\ scrape_semaphore.value = 0

====
